---- MODULE Spec2Model ----
(***************************************************************************)
(* Model of the scalping-bot detection and backtest core.                  *)
(*                                                                         *)
(* Bars are OHLCV records addressed by 0-based bar index, as in the        *)
(* source (df.iloc[i]); a series df is a TLA+ sequence, so bar i is        *)
(* df[i+1].  Prices are integers.  The index of a series is uniform: bar i *)
(* carries the timestamp index.start + i * BarMinutes.                     *)
(*                                                                         *)
(* Every detector is a pure function of its arguments; the state machine   *)
(* holds the series being fed (df), the call in flight (call) and what it  *)
(* returned (ret).                                                         *)
(***************************************************************************)
EXTENDS Integers, Sequences, FiniteSets, TLC

VARIABLES df, call, ret

vars == <<df, call, ret>>

----------------------------------------------------------------------------
(* Python helpers *)

\* range(a, b) as a sequence
PyRange(a, b) == [k \in 1..(IF b > a THEN b - a ELSE 0) |-> a + k - 1]

Min2(a, b) == IF a <= b THEN a ELSE b

Max2(a, b) == IF a >= b THEN a ELSE b

Abs(x) == IF x >= 0 THEN x ELSE 0 - x

SetMax(S) == CHOOSE x \in S : \A y \in S : y <= x

SetMin(S) == CHOOSE x \in S : \A y \in S : x <= y

\* [f(x) for x in s if p(x)], in the order of s
RECURSIVE Concat(_)
Concat(ss) == IF ss = <<>> THEN <<>> ELSE Head(ss) \o Concat(Tail(ss))

NoCall == [op |-> "none"]

----------------------------------------------------------------------------
(* Bars *)

\* one candle: the open, high, low, close and volume columns of a row
Candle(o, h, l, c, v) == [open |-> o, high |-> h, low |-> l, close |-> c, volume |-> v]

\* well-formed candles over the prices 1..p: low <= open, close <= high
WellFormedCandles(p, vols) ==
    {b \in [open : 1..p, high : 1..p, low : 1..p, close : 1..p, volume : vols] :
        b.low <= Min2(b.open, b.close) /\ Max2(b.open, b.close) <= b.high}

\* A timestamp is an instant (minutes, UTC) with the timezone of the index it
\* came from ("none": timezone-naive).
Timestamp(utc, tz) == [utc |-> utc, tz |-> tz]

BarMinutes == 5

\* the row of a series: a candle under its index timestamp
Row(candle, ts) ==
    [open |-> candle.open, high |-> candle.high, low |-> candle.low,
     close |-> candle.close, volume |-> candle.volume, ts |-> ts]

\* the timestamp of the row appended to d, on a uniform index starting at start
NextTs(d, start, tz) == Timestamp(start + Len(d) * BarMinutes, tz)

High(d, i) == d[i + 1].high

Low(d, i) == d[i + 1].low

Open(d, i) == d[i + 1].open

Close(d, i) == d[i + 1].close

Volume(d, i) == d[i + 1].volume

\* df.index[i]
IndexTs(d, i) == d[i + 1].ts

----------------------------------------------------------------------------
(* structure/swing.py *)

SwingLevel(price, is_high, i) == [price |-> price, is_high |-> is_high, bar_index |-> i]

\* highs.iloc[i - lookback : i + lookback + 1].max()
WindowHighMax(d, i, lookback) ==
    SetMax({High(d, j) : j \in (i - lookback)..(i + lookback)})

\* lows.iloc[i - lookback : i + lookback + 1].min()
WindowLowMin(d, i, lookback) ==
    SetMin({Low(d, j) : j \in (i - lookback)..(i + lookback)})

IsSwingHighMutTies(d, i, lookback) ==
    \A j \in (i - lookback)..(i + lookback) : j # i => High(d, j) < High(d, i)

IsSwingHigh(d, i, lookback) == High(d, i) = WindowHighMax(d, i, lookback)

IsSwingLow(d, i, lookback) == Low(d, i) = WindowLowMin(d, i, lookback)

find_swing_highs(d, lookback) ==
    IF Len(d) < lookback * 2 + 1 THEN <<>>
    ELSE LET r == PyRange(lookback, Len(d) - lookback)
         IN Concat([k \in DOMAIN r |->
                IF IsSwingHigh(d, r[k], lookback)
                THEN <<SwingLevel(High(d, r[k]), TRUE, r[k])>> ELSE <<>>])

find_swing_lows(d, lookback) ==
    IF Len(d) < lookback * 2 + 1 THEN <<>>
    ELSE LET r == PyRange(lookback, Len(d) - lookback)
         IN Concat([k \in DOMAIN r |->
                IF IsSwingLow(d, r[k], lookback)
                THEN <<SwingLevel(Low(d, r[k]), FALSE, r[k])>> ELSE <<>>])

find_swing_highs_lows(d, lookback) ==
    [swing_highs |-> find_swing_highs(d, lookback),
     swing_lows |-> find_swing_lows(d, lookback)]

----------------------------------------------------------------------------
(* structure/fvg.py *)

FVG(direction, zh, zl, i) ==
    [direction |-> direction, zone_high |-> zh, zone_low |-> zl, bar_index |-> i]

\* the bearish branch of one window, with the zone bounds swapped
FvgBearishMutZone(d, i) ==
    IF High(d, i) < Low(d, i + 2)
    THEN <<FVG("bearish", High(d, i), Low(d, i + 2), i + 1)>> ELSE <<>>

FvgBullish(d, i) ==
    IF Low(d, i) > High(d, i + 2)
    THEN <<FVG("bullish", Low(d, i), High(d, i + 2), i + 1)>> ELSE <<>>

FvgBearish(d, i) ==
    IF High(d, i) < Low(d, i + 2)
    THEN <<FVG("bearish", Low(d, i + 2), High(d, i), i + 1)>> ELSE <<>>

find_fvgs(d) ==
    IF Len(d) < 3 THEN <<>>
    ELSE LET r == PyRange(0, Len(d) - 2)
         IN Concat([k \in DOMAIN r |-> FvgBullish(d, r[k]) \o FvgBearish(d, r[k])])

----------------------------------------------------------------------------
(* Fractional parameters (ratios, percentages, multiples) are rationals n/d  *)
(* with d > 0; a comparison against a product is cross-multiplied, so every  *)
(* test is decided exactly.                                                  *)

Rat(n, d) == [n |-> n, d |-> d]

RECURSIVE SumSeq(_)
SumSeq(s) == IF s = <<>> THEN 0 ELSE Head(s) + SumSeq(Tail(s))

----------------------------------------------------------------------------
(* structure/atr.py *)

\* max over the three columns of row i; row 0 has no previous close, and
\* max(axis=1) skips the undefined columns
TrueRange(d, i) ==
    IF i = 0 THEN High(d, 0) - Low(d, 0)
    ELSE Max2(High(d, i) - Low(d, i),
              Max2(Abs(High(d, i) - Close(d, i - 1)), Abs(Low(d, i) - Close(d, i - 1))))

\* tr.rolling(period).mean() has a value at i once period values are in the window
AtrDefined(i, period) == i >= period - 1

\* period * atr[i], where atr[i] is defined
AtrSum(d, i, period) == SumSeq([k \in 1..period |-> TrueRange(d, i - period + k)])

\* atr_series: per bar, the rolling mean as sum/period, or NaN
atr_series(d, period) ==
    [k \in 1..Len(d) |->
        IF AtrDefined(k - 1, period)
        THEN [nan |-> FALSE, sum |-> AtrSum(d, k - 1, period), period |-> period]
        ELSE [nan |-> TRUE, sum |-> 0, period |-> period]]

----------------------------------------------------------------------------
(* structure/order_block.py *)

OrderBlock(direction, zh, zl, i) ==
    [direction |-> direction, zone_high |-> zh, zone_low |-> zl, bar_index |-> i]

IsUp(d, j) == Close(d, j) > Open(d, j)

IsDown(d, j) == Close(d, j) < Open(d, j)

\* up_count / down_count over range(i + 1, min(i + 1 + displacement_bars, len(df)))
UpCount(d, i, displacement_bars) ==
    Cardinality({j \in (i + 1)..Min2(i + displacement_bars, Len(d) - 1) : IsUp(d, j)})

DownCount(d, i, displacement_bars) ==
    Cardinality({j \in (i + 1)..Min2(i + displacement_bars, Len(d) - 1) : IsDown(d, j)})

OrderBlocksAt(d, i, displacement_bars, body_atr_mult, atr_period) ==
    LET body == Abs(Close(d, i) - Open(d, i))
        atr == atr_series(d, atr_period)[i + 1]
    IN IF atr.nan \/ atr.sum <= 0 THEN <<>>
       ELSE IF body * body_atr_mult.d * atr.period < body_atr_mult.n * atr.sum THEN <<>>
       ELSE (IF IsDown(d, i) /\ UpCount(d, i, displacement_bars) >= displacement_bars
             THEN <<OrderBlock("bullish", High(d, i), Low(d, i), i)>> ELSE <<>>)
         \o (IF IsUp(d, i) /\ DownCount(d, i, displacement_bars) >= displacement_bars
             THEN <<OrderBlock("bearish", High(d, i), Low(d, i), i)>> ELSE <<>>)

find_order_blocks(d, displacement_bars, body_atr_mult, atr_period) ==
    IF Len(d) < displacement_bars + 2 THEN <<>>
    ELSE LET r == PyRange(1, Len(d) - displacement_bars - 1)
         IN Concat([k \in DOMAIN r |->
                OrderBlocksAt(d, r[k], displacement_bars, body_atr_mult, atr_period)])

----------------------------------------------------------------------------
(* structure/liquidity_sweep.py *)

LiquiditySweep(direction, level, i) ==
    [direction |-> direction, level |-> level, bar_index |-> i]

\* the breach measured against the level itself, without the threshold
SweepsHighMutNoThreshold(d, i, sh, threshold_pct) ==
    /\ sh.bar_index < i
    /\ High(d, i + 1) >= sh.price
    /\ Close(d, i + 1) < sh.price

\* next_high >= level * (1 + threshold_pct) and next_close < level
SweepsHigh(d, i, sh, threshold_pct) ==
    /\ sh.bar_index < i
    /\ High(d, i + 1) * threshold_pct.d >= sh.price * (threshold_pct.d + threshold_pct.n)
    /\ Close(d, i + 1) < sh.price

\* next_low <= level * (1 - threshold_pct) and next_close > level
SweepsLow(d, i, sl, threshold_pct) ==
    /\ sl.bar_index < i
    /\ Low(d, i + 1) * threshold_pct.d <= sl.price * (threshold_pct.d - threshold_pct.n)
    /\ Close(d, i + 1) > sl.price

\* the body of the loop over i: the first swing high that matches (break),
\* then the first swing low that matches (break)
SweepsAt(d, i, swing_highs, swing_lows, threshold_pct) ==
    LET hs == {k \in DOMAIN swing_highs : SweepsHigh(d, i, swing_highs[k], threshold_pct)}
        ls == {k \in DOMAIN swing_lows : SweepsLow(d, i, swing_lows[k], threshold_pct)}
    IN (IF hs = {} THEN <<>>
        ELSE <<LiquiditySweep("sweep_highs", swing_highs[SetMin(hs)].price, i + 1)>>)
       \o (IF ls = {} THEN <<>>
           ELSE <<LiquiditySweep("sweep_lows", swing_lows[SetMin(ls)].price, i + 1)>>)

find_liquidity_sweeps(d, swing_lookback, threshold_pct) ==
    LET swing_highs == find_swing_highs(d, swing_lookback)
        swing_lows == find_swing_lows(d, swing_lookback)
        r == PyRange(swing_lookback * 2, Len(d) - 2)
    IN IF swing_highs = <<>> /\ swing_lows = <<>> THEN <<>>
       ELSE Concat([k \in DOMAIN r |->
                SweepsAt(d, r[k], swing_highs, swing_lows, threshold_pct)])

----------------------------------------------------------------------------
(* rejection_block/detector.py *)

RejectionBlock(ts, direction, zh, zl, ch, cl, i, key_levels, reversal, vol_ok) ==
    [timestamp |-> ts, direction |-> direction, zone_high |-> zh, zone_low |-> zl,
     candle_high |-> ch, candle_low |-> cl, bar_index |-> i,
     key_levels_nearby |-> key_levels, reversal_confirmed |-> reversal,
     volume_ok |-> vol_ok]

\* mid = (zone_high + zone_low) / 2; abs(price - mid) <= mid * pct if mid else False
zone_near_price(zone_high, zone_low, price, pct) ==
    LET mid2 == zone_high + zone_low
    IN IF mid2 = 0 THEN FALSE
       ELSE Abs(2 * price - mid2) * pct.d <= mid2 * pct.n

\* not (high1 + dist < low2 or low1 - dist > high2), dist = mid1 * pct
zone_overlaps(high1, low1, high2, low2, pct) ==
    LET mid2 == high1 + low1
    IN ~ \/ 2 * pct.d * high1 + mid2 * pct.n < 2 * pct.d * low2
         \/ 2 * pct.d * low1 - mid2 * pct.n > 2 * pct.d * high2

BodyTop(d, i) == Max2(Open(d, i), Close(d, i))

BodyBottom(d, i) == Min2(Open(d, i), Close(d, i))

\* the tie between two qualifying wicks resolved for the lower wick
RbDirectionMutTie(wick_upper, wick_lower, body, ratio) ==
    LET bullish_ok == wick_lower * ratio.d >= ratio.n * body
        bearish_ok == wick_upper * ratio.d >= ratio.n * body
    IN IF ~bullish_ok /\ ~bearish_ok THEN "none"
       ELSE IF bullish_ok /\ bearish_ok
            THEN (IF wick_upper > wick_lower THEN "bearish" ELSE "bullish")
            ELSE (IF bullish_ok THEN "bullish" ELSE "bearish")

\* "none": the candle does not qualify
RbDirection(wick_upper, wick_lower, body, ratio) ==
    LET bullish_ok == wick_lower * ratio.d >= ratio.n * body
        bearish_ok == wick_upper * ratio.d >= ratio.n * body
    IN IF ~bullish_ok /\ ~bearish_ok THEN "none"
       ELSE IF bullish_ok /\ bearish_ok
            THEN (IF wick_upper >= wick_lower THEN "bearish" ELSE "bullish")
            ELSE (IF bullish_ok THEN "bullish" ELSE "bearish")

RbZoneHigh(d, i, direction) == IF direction = "bullish" THEN BodyBottom(d, i) ELSE High(d, i)

RbZoneLow(d, i, direction) == IF direction = "bullish" THEN Low(d, i) ELSE BodyTop(d, i)

\* the tags of the first matching level of each category, in the order of the code
KeyLevels(direction, zh, zl, pct, swing_highs, swing_lows, fvgs, obs, sweeps) ==
    LET swings == IF direction = "bullish" THEN swing_lows ELSE swing_highs
        sweep_dir == IF direction = "bullish" THEN "sweep_lows" ELSE "sweep_highs"
    IN (IF \E k \in DOMAIN swings : zone_near_price(zh, zl, swings[k].price, pct)
        THEN <<IF direction = "bullish" THEN "swing_low" ELSE "swing_high">> ELSE <<>>)
       \o (IF \E k \in DOMAIN fvgs :
                /\ fvgs[k].direction = direction
                /\ zone_overlaps(zh, zl, fvgs[k].zone_high, fvgs[k].zone_low, pct)
           THEN <<"fvg">> ELSE <<>>)
       \o (IF \E k \in DOMAIN obs :
                /\ obs[k].direction = direction
                /\ zone_overlaps(zh, zl, obs[k].zone_high, obs[k].zone_low, pct)
           THEN <<"order_block">> ELSE <<>>)
       \o (IF \E k \in DOMAIN sweeps :
                /\ sweeps[k].direction = sweep_dir
                /\ zone_near_price(zh, zl, sweeps[k].level, pct)
           THEN <<"liquidity_sweep">> ELSE <<>>)

\* the scan with `>=` and `<=` in place of the strict comparisons
ReversalConfirmedMutNonStrict(d, i, direction, reversal_confirmation_bars) ==
    \E j \in (i + 1)..Min2(i + reversal_confirmation_bars, Len(d) - 1) :
        IF direction = "bullish" THEN Close(d, j) >= High(d, i) ELSE Close(d, j) <= Low(d, i)

\* a close beyond the rejection candle within the next reversal_confirmation_bars bars
ReversalConfirmed(d, i, direction, reversal_confirmation_bars) ==
    \E j \in (i + 1)..Min2(i + reversal_confirmation_bars, Len(d) - 1) :
        IF direction = "bullish" THEN Close(d, j) > High(d, i) ELSE Close(d, j) < Low(d, i)

\* vol.rolling(20).mean()
VolWindow == 20

VolAvgDefined(i) == i >= VolWindow - 1

\* VolWindow * vol_avg[i], where vol_avg[i] is defined
VolSum(d, i) == SumSeq([k \in 1..VolWindow |-> Volume(d, i - VolWindow + k)])

VolOk(d, i, volume_above_avg_mult) ==
    IF volume_above_avg_mult.n > 0 /\ VolAvgDefined(i) /\ VolSum(d, i) > 0
    THEN Volume(d, i) * volume_above_avg_mult.d * VolWindow
            >= volume_above_avg_mult.n * VolSum(d, i)
    ELSE TRUE

\* the body of the loop over the candles: <<the block>> or <<>>
RejectionBlockAt(d, i, p, swing_highs, swing_lows, fvgs, obs, sweeps) ==
    LET body == Abs(Close(d, i) - Open(d, i))
        wick_upper == High(d, i) - BodyTop(d, i)
        wick_lower == BodyBottom(d, i) - Low(d, i)
        direction == RbDirection(wick_upper, wick_lower, body, p.wick_to_body_ratio_min)
        zh == RbZoneHigh(d, i, direction)
        zl == RbZoneLow(d, i, direction)
    IN IF direction = "none" THEN <<>>
       ELSE <<RejectionBlock(
                IndexTs(d, i), direction, zh, zl, High(d, i), Low(d, i), i,
                KeyLevels(direction, zh, zl, p.key_level_proximity_pct,
                          swing_highs, swing_lows, fvgs, obs, sweeps),
                ReversalConfirmed(d, i, direction, p.reversal_confirmation_bars),
                VolOk(d, i, p.volume_above_avg_mult))>>

\* p: the keyword arguments, by name
find_rejection_blocks(d, p) ==
    IF Len(d) < 4 THEN <<>>
    ELSE LET swing_highs == find_swing_highs(d, p.swing_lookback)
             swing_lows == find_swing_lows(d, p.swing_lookback)
             fvgs == find_fvgs(d)
             obs == find_order_blocks(d, p.ob_displacement_bars, p.ob_body_atr_mult, p.atr_period)
             sweeps == find_liquidity_sweeps(d, p.swing_lookback, p.sweep_threshold_pct)
             r == PyRange(1, Len(d) - p.reversal_confirmation_bars)
         IN Concat([k \in DOMAIN r |->
                RejectionBlockAt(d, r[k], p, swing_highs, swing_lows, fvgs, obs, sweeps)])

----------------------------------------------------------------------------
(* Derived prices (wick midpoints, entry levels, stops, targets) are held in *)
(* units of 1/Scale of a price point, so that the halves and the multiples   *)
(* of the code are exact: entry_fib_in_wick is a multiple of 1/FibDen and    *)
(* target_rr a multiple of 1/RrDen.                                          *)

FibDen == 2

RrDen == 2

Scale == FibDen * RrDen

\* float(df[col].iloc[j]) in the units of the derived prices
Px(price) == price * Scale

----------------------------------------------------------------------------
(* wick/theory.py *)

WickEvent(ts, direction, midpoint, wh, wl, i, respect, swing_bar_index) ==
    [timestamp |-> ts, direction |-> direction, midpoint |-> midpoint, wick_high |-> wh, wick_low |-> wl,
     bar_index |-> i, respect |-> respect, swing_bar_index |-> swing_bar_index]

\* min_wick_size = atr_min_mult * atr_val when the ATR is defined and positive, else 0
MeetsMinWickSize(d, i, wick, atr_min_mult, atr_period) ==
    LET atr == atr_series(d, atr_period)[i + 1]
    IN IF ~atr.nan /\ atr.sum > 0 /\ atr_min_mult.n > 0
       THEN wick * atr_min_mult.d * atr.period >= atr_min_mult.n * atr.sum
       ELSE wick >= 0

\* i in swing indices or any(abs(i - s.bar_index) <= swing_lookback * 2 for s in swings)
NearSwing(i, swings, swing_lookback) ==
    \E k \in DOMAIN swings : Abs(i - swings[k].bar_index) <= swing_lookback * 2

SwingBarIndex(i, swings) ==
    IF \E k \in DOMAIN swings : swings[k].bar_index = i THEN i ELSE -1

\* body_to_range_max and body / full_range > body_to_range_max
NotPinBar(d, i, body_to_range_max) ==
    /\ body_to_range_max.n # 0
    /\ Abs(Close(d, i) - Open(d, i)) * body_to_range_max.d
         > body_to_range_max.n * (High(d, i) - Low(d, i))

\* the scan of a bullish wick decided by the last bar of the window that
\* triggers, not by the first
RespectBullishMutLast(d, i, midpoint, respect_bars_lookback) ==
    LET js == {j \in (i + 1)..Min2(i + respect_bars_lookback, Len(d) - 1) :
                  Px(Close(d, j)) < midpoint \/ Close(d, j) > BodyTop(d, i)}
        last == CHOOSE x \in js : \A y \in js : y <= x
    IN IF js = {} THEN "None"
       ELSE IF Px(Close(d, last)) < midpoint THEN "False" ELSE "True"

\* the forward scan of a bullish wick: the first bar that closes below the
\* midpoint (disrespect) or above the body top (respect); "None" when no bar does
RespectBullish(d, i, midpoint, respect_bars_lookback) ==
    LET js == {j \in (i + 1)..Min2(i + respect_bars_lookback, Len(d) - 1) :
                  Px(Close(d, j)) < midpoint \/ Close(d, j) > BodyTop(d, i)}
    IN IF js = {} THEN "None"
       ELSE IF Px(Close(d, SetMin(js))) < midpoint THEN "False" ELSE "True"

RespectBearish(d, i, midpoint, respect_bars_lookback) ==
    LET js == {j \in (i + 1)..Min2(i + respect_bars_lookback, Len(d) - 1) :
                  Px(Close(d, j)) > midpoint \/ Close(d, j) < BodyBottom(d, i)}
    IN IF js = {} THEN "None"
       ELSE IF Px(Close(d, SetMin(js))) > midpoint THEN "False" ELSE "True"

\* the body of the loop over the candles; a qualifying wick on a candle that
\* is no pin bar ends the iteration (continue) before either event is added
WickEventsAt(d, i, p, swing_highs, swing_lows) ==
    LET body == Abs(Close(d, i) - Open(d, i))
        wick_upper == High(d, i) - BodyTop(d, i)
        wick_lower == BodyBottom(d, i) - Low(d, i)
        lower_ok == /\ wick_lower * p.wick_to_body_ratio_min.d >= p.wick_to_body_ratio_min.n * body
                    /\ MeetsMinWickSize(d, i, wick_lower, p.atr_min_mult, p.atr_period)
                    /\ NearSwing(i, swing_lows, p.swing_lookback)
        upper_ok == /\ wick_upper * p.wick_to_body_ratio_min.d >= p.wick_to_body_ratio_min.n * body
                    /\ MeetsMinWickSize(d, i, wick_upper, p.atr_min_mult, p.atr_period)
                    /\ NearSwing(i, swing_highs, p.swing_lookback)
        mid_lower == Px(Low(d, i)) + (BodyBottom(d, i) - Low(d, i)) * (Scale \div 2)
        mid_upper == Px(BodyTop(d, i)) + (High(d, i) - BodyTop(d, i)) * (Scale \div 2)
    IN IF High(d, i) - Low(d, i) <= 0 THEN <<>>
       ELSE IF (lower_ok \/ upper_ok) /\ NotPinBar(d, i, p.body_to_range_max) THEN <<>>
       ELSE (IF lower_ok
             THEN <<WickEvent(IndexTs(d, i), "bullish", mid_lower, High(d, i), Low(d, i), i,
                              RespectBullish(d, i, mid_lower, p.respect_bars_lookback),
                              SwingBarIndex(i, swing_lows))>>
             ELSE <<>>)
         \o (IF upper_ok
             THEN <<WickEvent(IndexTs(d, i), "bearish", mid_upper, High(d, i), Low(d, i), i,
                              RespectBearish(d, i, mid_upper, p.respect_bars_lookback),
                              SwingBarIndex(i, swing_highs))>>
             ELSE <<>>)

\* p: the keyword arguments, by name
find_wick_events(d, p) ==
    IF Len(d) < 3 THEN <<>>
    ELSE LET swing_highs == find_swing_highs(d, p.swing_lookback)
             swing_lows == find_swing_lows(d, p.swing_lookback)
             r == PyRange(1, Len(d) - 1)
         IN Concat([k \in DOMAIN r |-> WickEventsAt(d, r[k], p, swing_highs, swing_lows)])

----------------------------------------------------------------------------
(* session/killzone.py *)

\* the time of day read without the conversion to New York time
MinuteOfDayMutNoConvert(ts) == ts.utc % (24 * 60)

\* ts.tz_convert("America/New_York").time() as hour * 60 + minute; New York
\* is five hours behind UTC (standard time)
MinuteOfDay(ts) == (ts.utc - 5 * 60) % (24 * 60)

\* the minutes part of "HH:MM" left out
ParseTimeMutHourOnly(t) == t[1] * 60

\* _parse_time of "HH:MM", as minutes: a time of day is the pair <<h, m>>
ParseTime(t) == t[1] * 60 + t[2]

\* kz: the keyword arguments (london_start, london_end, newyork_start,
\* newyork_end, extend_minutes_after); "None" when outside every window
get_killzone_name(ts, kz) ==
    LET minute_of_day == MinuteOfDay(ts)
        london_start_m == ParseTime(kz.london_start)
        london_end_m == ParseTime(kz.london_end)
        london_end_ext == london_end_m + kz.extend_minutes_after
        ny_start_m == ParseTime(kz.newyork_start)
        ny_end_m == ParseTime(kz.newyork_end)
        ny_end_ext == ny_end_m + kz.extend_minutes_after
    IN IF ts.tz = "none" THEN "None"
       ELSE IF london_start_m <= minute_of_day /\ minute_of_day <= london_end_ext THEN "london"
       ELSE IF /\ london_end_m < london_start_m
               /\ (minute_of_day >= london_start_m \/ minute_of_day <= london_end_ext)
            THEN "london"
       ELSE IF ny_start_m <= minute_of_day /\ minute_of_day <= ny_end_ext THEN "newyork"
       ELSE IF /\ ny_end_m < ny_start_m
               /\ (minute_of_day >= ny_start_m \/ minute_of_day <= ny_end_ext)
            THEN "newyork"
       ELSE "None"

in_killzone(ts, kz) == get_killzone_name(ts, kz) # "None"

----------------------------------------------------------------------------
(* engine/htf_bias.py *)

\* df.tail(n)
Tail_n(d, n) == SubSeq(d, Len(d) - Min2(n, Len(d)) + 1, Len(d))

\* the comparisons with the swing prices made inclusive
get_htf_bias_mut_ties(d, lookback) ==
    IF d = <<>> \/ Len(d) < lookback THEN "None"
    ELSE LET df_tail == Tail_n(d, lookback)
             close == Close(df_tail, Len(df_tail) - 1)
             swing_highs == find_swing_highs(df_tail, Min2(5, lookback \div 5))
             swing_lows == find_swing_lows(df_tail, Min2(5, lookback \div 5))
         IN IF swing_highs = <<>> \/ swing_lows = <<>> THEN "None"
            ELSE LET last_sh == SetMax({swing_highs[k].price : k \in DOMAIN swing_highs})
                     last_sl == SetMin({swing_lows[k].price : k \in DOMAIN swing_lows})
                 IN IF close >= last_sh THEN "bullish"
                    ELSE IF close <= last_sl THEN "bearish"
                    ELSE "None"

\* "None": undetermined.  An absent frame (None) and an empty one take the
\* same path and are both the empty sequence.
get_htf_bias(d, lookback) ==
    IF d = <<>> \/ Len(d) < lookback THEN "None"
    ELSE LET df_tail == Tail_n(d, lookback)
             close == Close(df_tail, Len(df_tail) - 1)
             swing_highs == find_swing_highs(df_tail, Min2(5, lookback \div 5))
             swing_lows == find_swing_lows(df_tail, Min2(5, lookback \div 5))
         IN IF swing_highs = <<>> \/ swing_lows = <<>> THEN "None"
            ELSE LET last_sh == SetMax({swing_highs[k].price : k \in DOMAIN swing_highs})
                     last_sl == SetMin({swing_lows[k].price : k \in DOMAIN swing_lows})
                 IN IF close > last_sh THEN "bullish"
                    ELSE IF close < last_sl THEN "bearish"
                    ELSE "None"

\* _ok with the soft mode read as the strict one
BiasOkMutSoftStrict(direction, bias, req, treat_none_as_aligned) ==
    IF ~req THEN TRUE ELSE bias # "None" /\ bias = direction

\* _ok of htf_aligned
BiasOk(direction, bias, req, treat_none_as_aligned) ==
    IF ~req THEN TRUE
    ELSE IF treat_none_as_aligned THEN bias = "None" \/ bias = direction
    ELSE bias # "None" /\ bias = direction

htf_aligned(direction, bias_1h, bias_4h, bias_daily, require_1h, require_4h, require_daily, treat_none_as_aligned) ==
    IF direction \notin {"bullish", "bearish"} THEN FALSE
    ELSE /\ BiasOk(direction, bias_1h, require_1h, treat_none_as_aligned)
         /\ BiasOk(direction, bias_4h, require_4h, treat_none_as_aligned)
         /\ BiasOk(direction, bias_daily, require_daily, treat_none_as_aligned)

----------------------------------------------------------------------------
(* engine/confluence.py *)

LowerCase == <<"a", "b", "c", "d", "e", "f", "g", "h", "i", "j", "k", "l", "m",
               "n", "o", "p", "q", "r", "s", "t", "u", "v", "w", "x", "y", "z">>

UpperCase == <<"A", "B", "C", "D", "E", "F", "G", "H", "I", "J", "K", "L", "M",
               "N", "O", "P", "Q", "R", "S", "T", "U", "V", "W", "X", "Y", "Z">>

\* str.upper(); a symbol is the sequence of its characters
Upper(str) ==
    [k \in DOMAIN str |->
        IF \E a \in DOMAIN LowerCase : LowerCase[a] = str[k]
        THEN UpperCase[CHOOSE a \in DOMAIN LowerCase : LowerCase[a] = str[k]]
        ELSE str[k]]

\* sub in str
Contains(str, sub) ==
    \E k \in 1..(Len(str) - Len(sub) + 1) : SubSeq(str, k, k + Len(sub) - 1) = sub

\* "NQ" in symbol.upper()
IsNQ(symbol) == Contains(Upper(symbol), <<"N", "Q">>)

SetupRecord(symbol, timeframe, direction, eh, el, stop, target, confluences, score, ts, key_type, key_price, ch, cl) ==
    [symbol |-> symbol, timeframe |-> timeframe, direction |-> direction,
     entry_zone_high |-> eh, entry_zone_low |-> el, stop |-> stop, target |-> target,
     confluences |-> confluences, score |-> score, timestamp |-> ts,
     key_level_type |-> key_type, key_level_price |-> key_price,
     rejection_candle_high |-> ch, rejection_candle_low |-> cl]

\* the reward added to the entry whatever the direction
capped_target_mut_long(entry, stop, direction, rr_num) ==
    entry + (Abs(entry - stop) * rr_num) \div RrDen

\* reward = risk * target_rr, target_rr = rr_num / RrDen
capped_target(entry, stop, direction, rr_num) ==
    LET risk == Abs(entry - stop)
        reward == (risk * rr_num) \div RrDen
    IN IF direction = "bullish" THEN entry + reward ELSE entry - reward

\* the keyword arguments build_setups hands to find_rejection_blocks
RbArgs(config) ==
    [wick_to_body_ratio_min |-> config.rejection_block.wick_to_body_ratio_min,
     reversal_confirmation_bars |-> config.rejection_block.reversal_confirmation_bars,
     key_level_proximity_pct |-> config.rejection_block.key_level_proximity_pct,
     volume_above_avg_mult |-> config.rejection_block.volume_above_avg_mult,
     swing_lookback |-> config.structure.swing_lookback,
     atr_period |-> config.structure.atr_period,
     ob_displacement_bars |-> config.structure.order_block_displacement_bars,
     ob_body_atr_mult |-> config.structure.order_block_body_atr_mult,
     sweep_threshold_pct |-> config.structure.liquidity_sweep_threshold_pct]

\* the keyword arguments build_setups hands to find_wick_events
WickArgs(config) ==
    [wick_to_body_ratio_min |-> config.wick.wick_to_body_ratio_min,
     body_to_range_max |-> config.wick.body_to_range_max,
     atr_min_mult |-> config.wick.atr_min_mult,
     respect_bars_lookback |-> config.wick.respect_bars_lookback,
     swing_lookback |-> config.structure.swing_lookback,
     atr_period |-> config.structure.atr_period]

\* the loop over wick_events: it ends (break) at the first event of the
\* block's direction, which earns the weight if it lies within 3 bars and
\* resolved to respect
WickRespectBonus(rb, wick_events) ==
    LET same == {k \in DOMAIN wick_events : wick_events[k].direction = rb.direction}
    IN IF same = {} THEN FALSE
       ELSE LET we == wick_events[SetMin(same)]
            IN /\ (we.bar_index = rb.bar_index \/ Abs(we.bar_index - rb.bar_index) <= 3)
               /\ we.respect = "True"

KeyLevelWeight(k, weights) ==
    IF k = "order_block" THEN weights.order_block
    ELSE IF k = "fvg" THEN weights.fvg
    ELSE IF k = "liquidity_sweep" THEN weights.liquidity_sweep
    ELSE IF k \in {"swing_high", "swing_low"} THEN weights.swing_level
    ELSE 0

KeyLevelTag(k) ==
    IF k = "order_block" THEN <<"Order Block">>
    ELSE IF k = "fvg" THEN <<"FVG">>
    ELSE IF k = "liquidity_sweep" THEN <<"Liquidity sweep">>
    ELSE IF k \in {"swing_high", "swing_low"} THEN <<"Swing level">>
    ELSE <<>>

\* the score before the min_score test: rejection block, killzone, wick respect, key levels
BaseScore(rb, wick_events, weights) ==
    weights.rejection_block + weights.killzone
    + (IF WickRespectBonus(rb, wick_events) THEN weights.wick_respect ELSE 0)
    + SumSeq([k \in DOMAIN rb.key_levels_nearby |-> KeyLevelWeight(rb.key_levels_nearby[k], weights)])

BaseConfluences(rb, wick_events, kz_name) ==
    <<"Rejection Block">>
    \o (IF kz_name = "london" THEN <<"Killzone (london)">> ELSE <<"Killzone (newyork)">>)
    \o (IF WickRespectBonus(rb, wick_events) THEN <<"Wick 50% respect">> ELSE <<>>)
    \o Concat([k \in DOMAIN rb.key_levels_nearby |-> KeyLevelTag(rb.key_levels_nearby[k])])

\* htf_cfg.get("enabled", default): the key holds "True" or "False", or is "absent"
HtfEnabled(htf_cfg, default) ==
    IF htf_cfg.enabled = "absent" THEN default ELSE htf_cfg.enabled = "True"

\* the HTF test of the loop: enabled (default False) and aligned
HtfBonus(rb, htf_cfg, bias_1h, bias_4h, bias_daily) ==
    /\ HtfEnabled(htf_cfg, FALSE)
    /\ htf_aligned(rb.direction, bias_1h, bias_4h, bias_daily, htf_cfg.require_1h, htf_cfg.require_4h, htf_cfg.require_daily, htf_cfg.treat_none_as_aligned)

\* the min_score test off by one: a score of min_score - 1 passes
ScoreAtGateMutOffByOne(base, htf_bonus) == base + 1

\* the min_score test read after the HTF bonus has been added
ScoreAtGateMutAfterHtf(base, htf_bonus) == base + htf_bonus

\* the score the min_score test sees: the HTF bonus is added after it
ScoreAtGate(base, htf_bonus) == base

\* entry_level, Scale units: entry_fib_in_wick = fib_num / FibDen of the wick
\* range, from the wick extreme toward the body
EntryLevel(rb, fib_num) ==
    LET wick_range == rb.zone_high - rb.zone_low
    IN IF rb.direction = "bullish"
       THEN Px(rb.zone_low) + fib_num * wick_range * (Scale \div FibDen)
       ELSE Px(rb.zone_high) - fib_num * wick_range * (Scale \div FibDen)

\* base_buffer, in points: widened when the candle's volume is at or above
\* volume_above_avg_mult times its average (the candle's own volume before bar 20)
StopBuffer(d, rb, is_nq, cap) ==
    LET base_buffer == IF is_nq THEN cap.stop_buffer_points_nq ELSE cap.stop_buffer_points_es
        vol_extra == IF is_nq THEN cap.volume_buffer_extra_nq ELSE cap.volume_buffer_extra_es
        vol == Volume(d, rb.bar_index)
        \* VolWindow * vol_avg
        vol_avg_w == IF rb.bar_index >= VolWindow THEN VolSum(d, rb.bar_index) ELSE VolWindow * vol
    IN IF /\ rb.bar_index < Len(d)
          /\ vol_avg_w > 0
          /\ vol * cap.volume_above_avg_mult.d * VolWindow >= cap.volume_above_avg_mult.n * vol_avg_w
       THEN base_buffer + vol_extra
       ELSE base_buffer

StopPrice(d, rb, is_nq, cap) ==
    IF rb.direction = "bullish"
    THEN Px(rb.candle_low - StopBuffer(d, rb, is_nq, cap))
    ELSE Px(rb.candle_high + StopBuffer(d, rb, is_nq, cap))

\* the band test dropped on the upper side
RiskInBandMutNoMax(risk_points, is_nq, cap) ==
    LET min_risk == IF is_nq THEN cap.min_risk_points_nq ELSE cap.min_risk_points_es
    IN ~(risk_points < Px(min_risk))

\* not (risk_points < min_risk or risk_points > max_risk)
RiskInBand(risk_points, is_nq, cap) ==
    LET min_risk == IF is_nq THEN cap.min_risk_points_nq ELSE cap.min_risk_points_es
        max_risk == IF is_nq THEN cap.max_risk_points_nq ELSE cap.max_risk_points_es
    IN ~(risk_points < Px(min_risk) \/ risk_points > Px(max_risk))

\* the body of the loop over the rejection blocks: <<the record>> or <<>>
SetupFor(d, rb, symbol, timeframe, config, wick_events, bias_1h, bias_4h, bias_daily) ==
    LET cap == config.target_cap
        weights == config.confluence.weights
        kz_name == get_killzone_name(rb.timestamp, config.killzone)
        base == BaseScore(rb, wick_events, weights)
        htf == HtfBonus(rb, config.htf_bias, bias_1h, bias_4h, bias_daily)
        htf_bonus == IF htf THEN weights.htf_aligned ELSE 0
        score == base + htf_bonus
        confluences == BaseConfluences(rb, wick_events, kz_name)
                        \o (IF htf THEN <<"HTF aligned (1H+4H+daily)">> ELSE <<>>)
        is_nq == IsNQ(symbol)
        entry_level == EntryLevel(rb, cap.entry_fib_num)
        entry_tolerance == IF is_nq THEN cap.entry_zone_tolerance_points_nq
                           ELSE cap.entry_zone_tolerance_points_es
        stop == StopPrice(d, rb, is_nq, cap)
        risk_points == Abs(entry_level - stop)
    IN IF rb.bar_index >= Len(d) THEN <<>>
       ELSE IF cap.require_reversal_confirmed /\ ~rb.reversal_confirmed THEN <<>>
       ELSE IF kz_name = "None" THEN <<>>
       ELSE IF ScoreAtGate(base, htf_bonus) < config.confluence.min_score_to_alert THEN <<>>
       ELSE IF ~RiskInBand(risk_points, is_nq, cap) THEN <<>>
       ELSE <<SetupRecord(symbol, timeframe, rb.direction,
                          entry_level + Px(entry_tolerance), entry_level - Px(entry_tolerance),
                          stop, capped_target(entry_level, stop, rb.direction, cap.target_rr_num),
                          confluences, score, rb.timestamp,
                          IF rb.key_levels_nearby # <<>> THEN rb.key_levels_nearby[1]
                          ELSE "Rejection Block",
                          entry_level, rb.candle_high, rb.candle_low)>>

\* htf: the frames df_1h, df_4h, df_daily (the empty sequence when absent)
build_setups(d, symbol, timeframe, config, htf) ==
    LET rbs == find_rejection_blocks(d, RbArgs(config))
        wick_events == find_wick_events(d, WickArgs(config))
        htf_lookback == config.htf_bias.lookback_bars
        on == HtfEnabled(config.htf_bias, TRUE)
        bias_1h == IF htf.df_1h # <<>> /\ on THEN get_htf_bias(htf.df_1h, htf_lookback) ELSE "None"
        bias_4h == IF htf.df_4h # <<>> /\ on THEN get_htf_bias(htf.df_4h, htf_lookback) ELSE "None"
        bias_daily == IF htf.df_daily # <<>> /\ on
                      THEN get_htf_bias(htf.df_daily, Min2(htf_lookback, Len(htf.df_daily)))
                      ELSE "None"
    IN Concat([k \in DOMAIN rbs |->
            SetupFor(d, rbs[k], symbol, timeframe, config, wick_events, bias_1h, bias_4h, bias_daily)])

----------------------------------------------------------------------------
(* backtest.py *)

TradeResult(setup, outcome, exit_price, bars_held, pnl_points) ==
    [setup |-> setup, outcome |-> outcome, exit_price |-> exit_price,
     bars_held |-> bars_held, pnl_points |-> pnl_points]

\* bar_ts <= setup_ts: both are instants
TsLeq(bar_ts, setup_ts) == bar_ts.utc <= setup_ts.utc

\* <<i>> for the last bar at or before setup_ts, <<>> for None
find_setup_bar_index(d, setup_ts) ==
    LET before == {i \in 0..(Len(d) - 1) : TsLeq(IndexTs(d, i), setup_ts)}
    IN IF before = {} THEN <<>> ELSE <<SetMax(before)>>

\* the fill scan read from the setup bar itself
FillScanStartMutAnchor(setup_bar_index) == setup_bar_index

\* the fill scan resumed after the bars earlier simulations have consumed
FillScanStartMutCursor(setup_bar_index) == setup_bar_index + 1 + Len(ret)

\* range(setup_bar_index + 1, ...): the first bar the fill scan reads
FillScanStart(setup_bar_index) == setup_bar_index + 1

\* low_j <= zone_high and high_j >= zone_low (the two directions test the same overlap)
OverlapsZone(d, j, setup) ==
    IF setup.direction = "bullish"
    THEN Px(Low(d, j)) <= setup.entry_zone_high /\ Px(High(d, j)) >= setup.entry_zone_low
    ELSE Px(High(d, j)) >= setup.entry_zone_low /\ Px(Low(d, j)) <= setup.entry_zone_high

\* entry_bar after the fill loop: <<j>>, or <<>> for None
EntryBar(d, setup, setup_bar_index, max_bars_to_fill) ==
    LET r == PyRange(FillScanStart(setup_bar_index),
                     Min2(setup_bar_index + 1 + max_bars_to_fill, Len(d)))
        hits == {k \in DOMAIN r : OverlapsZone(d, r[k], setup)}
    IN IF hits = {} THEN <<>> ELSE <<r[SetMin(hits)]>>

\* the two tests of a bar read target first
ExitAtMutTargetFirst(d, j, setup, entry_bar) ==
    LET entry_price == (setup.entry_zone_high + setup.entry_zone_low) \div 2
        hit_stop == IF setup.direction = "bullish" THEN Px(Low(d, j)) <= setup.stop
                    ELSE Px(High(d, j)) >= setup.stop
        hit_target == IF setup.direction = "bullish" THEN Px(High(d, j)) >= setup.target
                      ELSE Px(Low(d, j)) <= setup.target
        sign == IF setup.direction = "bullish" THEN 1 ELSE -1
    IN IF hit_target
       THEN <<TradeResult(setup, "win", setup.target, j - entry_bar, sign * (setup.target - entry_price))>>
       ELSE IF hit_stop
       THEN <<TradeResult(setup, "loss", setup.stop, j - entry_bar, sign * (setup.stop - entry_price))>>
       ELSE <<>>

\* bars_held counted from the bar after the fill
ExitAtMutHeld(d, j, setup, entry_bar) ==
    LET entry_price == (setup.entry_zone_high + setup.entry_zone_low) \div 2
        hit_stop == IF setup.direction = "bullish" THEN Px(Low(d, j)) <= setup.stop
                    ELSE Px(High(d, j)) >= setup.stop
        hit_target == IF setup.direction = "bullish" THEN Px(High(d, j)) >= setup.target
                      ELSE Px(Low(d, j)) <= setup.target
        sign == IF setup.direction = "bullish" THEN 1 ELSE -1
    IN IF hit_stop
       THEN <<TradeResult(setup, "loss", setup.stop, j - entry_bar - 1, sign * (setup.stop - entry_price))>>
       ELSE IF hit_target
       THEN <<TradeResult(setup, "win", setup.target, j - entry_bar - 1, sign * (setup.target - entry_price))>>
       ELSE <<>>

\* the body of the outcome loop at bar j: the stop test comes first; <<>>
\* when the bar reaches neither level
ExitAt(d, j, setup, entry_bar) ==
    LET entry_price == (setup.entry_zone_high + setup.entry_zone_low) \div 2
        hit_stop == IF setup.direction = "bullish" THEN Px(Low(d, j)) <= setup.stop
                    ELSE Px(High(d, j)) >= setup.stop
        hit_target == IF setup.direction = "bullish" THEN Px(High(d, j)) >= setup.target
                      ELSE Px(Low(d, j)) <= setup.target
        sign == IF setup.direction = "bullish" THEN 1 ELSE -1
    IN IF hit_stop
       THEN <<TradeResult(setup, "loss", setup.stop, j - entry_bar, sign * (setup.stop - entry_price))>>
       ELSE IF hit_target
       THEN <<TradeResult(setup, "win", setup.target, j - entry_bar, sign * (setup.target - entry_price))>>
       ELSE <<>>

\* <<TradeResult>>, or <<>> for None
simulate_trade(d, setup, setup_bar_index, max_bars_to_fill) ==
    LET entry_bar == EntryBar(d, setup, setup_bar_index, max_bars_to_fill)
    IN IF entry_bar = <<>> THEN <<>>
       ELSE LET r == PyRange(entry_bar[1], Len(d))
                exits == {k \in DOMAIN r : ExitAt(d, r[k], setup, entry_bar[1]) # <<>>}
            IN IF exits = {} THEN <<>>
               ELSE ExitAt(d, r[SetMin(exits)], setup, entry_bar[1])

\* the body of the loop over all_setups in run_backtest: the locals idx and
\* tr (with the entry_bar of the call, when there was one) once the body is done
SimulateSetup(d, setup, max_bars_to_fill) ==
    LET idx == find_setup_bar_index(d, setup.timestamp)
    IN IF idx = <<>> THEN [idx |-> <<>>, entry_bar |-> <<>>, tr |-> <<>>]
       ELSE [idx |-> idx,
             entry_bar |-> EntryBar(d, setup, idx[1], max_bars_to_fill),
             tr |-> simulate_trade(d, setup, idx[1], max_bars_to_fill)]

----------------------------------------------------------------------------
(* backtest.py, run_backtest: the summary of the results *)

\* the peak taken over the equity after each trade only, not over the start
RECURSIVE EquityLoopMutPeak(_)
EquityLoopMutPeak(results) ==
    IF results = <<>> THEN [equity |-> 0, peak |-> 0, max_dd |-> 0]
    ELSE LET before == EquityLoopMutPeak(SubSeq(results, 1, Len(results) - 1))
             equity == before.equity + results[Len(results)].pnl_points
             peak == IF Len(results) = 1 THEN equity ELSE Max2(before.peak, equity)
             drawdown == peak - equity
         IN [equity |-> equity, peak |-> peak,
             max_dd |-> IF drawdown > before.max_dd THEN drawdown ELSE before.max_dd]

\* the locals equity, peak and max_dd after the loop over results
RECURSIVE EquityLoop(_)
EquityLoop(results) ==
    IF results = <<>> THEN [equity |-> 0, peak |-> 0, max_dd |-> 0]
    ELSE LET before == EquityLoop(SubSeq(results, 1, Len(results) - 1))
             equity == before.equity + results[Len(results)].pnl_points
             peak == Max2(before.peak, equity)
             drawdown == peak - equity
         IN [equity |-> equity, peak |-> peak,
             max_dd |-> IF drawdown > before.max_dd THEN drawdown ELSE before.max_dd]

\* the summary dict; win_rate_pct and avg_bars_held are fractions, the int 0
\* of the empty case is 0 / 1
Summary(results) ==
    LET wins == SelectSeq(results, LAMBDA r : r.outcome = "win")
        losses == SelectSeq(results, LAMBDA r : r.outcome = "loss")
    IN [total_trades |-> Len(results),
        wins |-> Len(wins),
        losses |-> Len(losses),
        win_rate_pct |-> IF results # <<>> THEN Rat(100 * Len(wins), Len(results)) ELSE Rat(0, 1),
        total_pnl_points |-> SumSeq([k \in DOMAIN results |-> results[k].pnl_points]),
        max_drawdown_points |-> Abs(EquityLoop(results).max_dd),
        avg_bars_held |-> IF results # <<>>
                          THEN Rat(SumSeq([k \in DOMAIN results |-> results[k].bars_held]), Len(results))
                          ELSE Rat(0, 1)]

----------------------------------------------------------------------------
(* Specification of the structure detectors that read highs and lows only *)

StructMaxBars == 5

StructMaxPrice == 2

MaxLookback == 2

\* bars whose body spans the whole range: the swing and FVG scans read only high and low
HLBars == {b \in WellFormedCandles(StructMaxPrice, {1}) : b.open = b.low /\ b.close = b.high}

InitStruct == df = <<>> /\ call = NoCall /\ ret = <<>>

AppendHLBar ==
    /\ Len(df) < StructMaxBars
    /\ \E b \in HLBars : df' = Append(df, Row(b, NextTs(df, 0, "UTC")))
    /\ call' = NoCall
    /\ ret' = <<>>

CallSwings ==
    /\ call = NoCall
    /\ \E lookback \in 1..MaxLookback :
        /\ call' = [op |-> "find_swing_highs_lows", lookback |-> lookback]
        /\ ret' = find_swing_highs_lows(df, lookback)
    /\ UNCHANGED df

CallFvgs ==
    /\ call = NoCall
    /\ call' = [op |-> "find_fvgs"]
    /\ ret' = find_fvgs(df)
    /\ UNCHANGED df

NextStruct == AppendHLBar \/ CallSwings \/ CallFvgs

SpecStruct == InitStruct /\ [][NextStruct]_vars

----------------------------------------------------------------------------
(* C8: find_swing_highs_lows reports bar i as a swing high iff                *)
(* L <= i < len - L and no bar of [i-L, i+L] has a higher high (ties all      *)
(* reported), symmetrically for lows; both lists are strictly increasing in   *)
(* bar index; both are empty when len < 2L+1; on flat data every interior bar *)
(* is in both lists.                                                          *)

StrictlyIncreasingIndex(s) ==
    \A a, b \in DOMAIN s : a < b => s[a].bar_index < s[b].bar_index

----------------------------------------------------------------------------
(* C9: for every 3-bar window starting at i, find_fvgs emits a bullish FVG    *)
(* iff low(i) > high(i+2), with zone [high(i+2), low(i)], and a bearish FVG   *)
(* iff high(i) < low(i+2), with zone [high(i), low(i+2)]; each has bar_index  *)
(* i+1, nothing else is emitted, and the output is ordered by bar index.      *)

C9_FvgIff ==
    call.op = "find_fvgs" =>
        LET n == Len(df)
            Hits(dir, i) == {k \in DOMAIN ret : ret[k].direction = dir /\ ret[k].bar_index = i + 1}
        IN /\ \A i \in 0..(n - 3) :
                /\ Cardinality(Hits("bullish", i)) = (IF Low(df, i) > High(df, i + 2) THEN 1 ELSE 0)
                /\ Cardinality(Hits("bearish", i)) = (IF High(df, i) < Low(df, i + 2) THEN 1 ELSE 0)
                /\ \A k \in Hits("bullish", i) :
                      ret[k].zone_low = High(df, i + 2) /\ ret[k].zone_high = Low(df, i)
                /\ \A k \in Hits("bearish", i) :
                      ret[k].zone_low = High(df, i) /\ ret[k].zone_high = Low(df, i + 2)
           /\ \A k \in DOMAIN ret :
                /\ ret[k].direction \in {"bullish", "bearish"}
                /\ ret[k].bar_index \in 1..(n - 2)
           /\ \A a, b \in DOMAIN ret : a < b => ret[a].bar_index <= ret[b].bar_index

\* a series with a bullish gap followed by a bearish gap
C9_Witness ==
    /\ call.op = "find_fvgs"
    /\ \E a, b \in DOMAIN ret :
          /\ a < b
          /\ ret[a].direction = "bullish"
          /\ ret[b].direction = "bearish"
          /\ ret[a].zone_low < ret[a].zone_high

----------------------------------------------------------------------------
(* Specification of the rejection-block detector over full OHLC candles *)

RbMaxBars == 4

RbMaxPrice == 3

MaxConfirmBars == 2

RbCandles == WellFormedCandles(RbMaxPrice, {1})

\* the keyword arguments of find_rejection_blocks; the windows are the
\* shortest ones, so that every level detector has candidates in a short series
RbParams(ratio, confirm_bars) ==
    [wick_to_body_ratio_min |-> ratio,
     reversal_confirmation_bars |-> confirm_bars,
     key_level_proximity_pct |-> Rat(1, 1000),
     volume_above_avg_mult |-> Rat(1, 1),
     swing_lookback |-> 1,
     atr_period |-> 1,
     ob_displacement_bars |-> 1,
     ob_body_atr_mult |-> Rat(1, 2),
     sweep_threshold_pct |-> Rat(2, 100)]

WickRatios == {Rat(1, 1), Rat(2, 1)}

InitRB == df = <<>> /\ call = NoCall /\ ret = <<>>

AppendCandle ==
    /\ Len(df) < RbMaxBars
    /\ \E b \in RbCandles : df' = Append(df, Row(b, NextTs(df, 0, "UTC")))
    /\ call' = NoCall
    /\ ret' = <<>>

CallRejectionBlocks ==
    /\ call = NoCall
    /\ \E ratio \in WickRatios, confirm_bars \in 1..MaxConfirmBars :
        /\ call' = [op |-> "find_rejection_blocks", p |-> RbParams(ratio, confirm_bars)]
        /\ ret' = find_rejection_blocks(df, RbParams(ratio, confirm_bars))
    /\ UNCHANGED df

NextRB == AppendCandle \/ CallRejectionBlocks

SpecRB == InitRB /\ [][NextRB]_vars

----------------------------------------------------------------------------
(* C10: find_rejection_blocks returns at most one RejectionBlock per bar      *)
(* index; when both wicks of the candle meet the wick-to-body threshold the   *)
(* longer wick decides the direction, and equal wicks that both meet it give  *)
(* bearish; the zone is [low, body bottom] for bullish and [body top, high]   *)
(* for bearish.                                                               *)

WickUpper(d, i) == High(d, i) - Max2(Open(d, i), Close(d, i))

WickLower(d, i) == Min2(Open(d, i), Close(d, i)) - Low(d, i)

MeetsThreshold(wick, d, i, ratio) ==
    wick * ratio.d >= ratio.n * Abs(Close(d, i) - Open(d, i))

C10_RbDirection ==
    call.op = "find_rejection_blocks" =>
        LET ratio == call.p.wick_to_body_ratio_min
        IN /\ \A a, b \in DOMAIN ret : a # b => ret[a].bar_index # ret[b].bar_index
           /\ \A k \in DOMAIN ret :
                LET i == ret[k].bar_index
                    up == WickUpper(df, i)
                    lo == WickLower(df, i)
                    both == MeetsThreshold(up, df, i, ratio) /\ MeetsThreshold(lo, df, i, ratio)
                IN /\ ret[k].direction \in {"bullish", "bearish"}
                   /\ (both /\ up > lo => ret[k].direction = "bearish")
                   /\ (both /\ lo > up => ret[k].direction = "bullish")
                   /\ (both /\ up = lo => ret[k].direction = "bearish")
                   /\ (ret[k].direction = "bullish" =>
                          /\ ret[k].zone_low = Low(df, i)
                          /\ ret[k].zone_high = Min2(Open(df, i), Close(df, i)))
                   /\ (ret[k].direction = "bearish" =>
                          /\ ret[k].zone_low = Max2(Open(df, i), Close(df, i))
                          /\ ret[k].zone_high = High(df, i))

\* one call reports a candle with two equal qualifying wicks (bearish) and a
\* candle whose two wicks qualify with the lower one longer (bullish)
C10_Witness ==
    /\ call.op = "find_rejection_blocks"
    /\ \E a, b \in DOMAIN ret :
          LET ia == ret[a].bar_index
              ib == ret[b].bar_index
              ratio == call.p.wick_to_body_ratio_min
          IN /\ WickUpper(df, ia) = WickLower(df, ia)
             /\ WickUpper(df, ia) > 0
             /\ ret[a].direction = "bearish"
             /\ MeetsThreshold(WickUpper(df, ib), df, ib, ratio)
             /\ WickLower(df, ib) > WickUpper(df, ib)
             /\ ret[b].direction = "bullish"

----------------------------------------------------------------------------
(* Specification of build_setups: a 5m series grows candle by candle, each    *)
(* opening at the previous close, and build_setups is called on it under a    *)
(* symbol and a configuration.  The configurations are the defaults of the    *)
(* code with the windows and the risk bands scaled to the short series, and  *)
(* one key of target_cap or confluence changed at a time.                     *)

SetupMaxBars == 4

SetupMaxPrice == 3

\* 06:50 UTC = 01:50 New York: the second bar is the last one before the London window
SetupStartUtc == 6 * 60 + 50

SetupCandles == WellFormedCandles(SetupMaxPrice, {1})

NQ_F == <<"N", "Q", "=", "F">>

ES_F == <<"E", "S", "=", "F">>

nq_f == <<"n", "q", "=", "f">>

Symbols == {NQ_F, ES_F, nq_f}

DefaultWeights ==
    [rejection_block |-> 1, killzone |-> 2, wick_respect |-> 2, order_block |-> 1,
     fvg |-> 1, liquidity_sweep |-> 1, swing_level |-> 1, htf_aligned |-> 2]

\* no htf_bias section and no higher-timeframe frames
NoHtfCfg ==
    [enabled |-> "absent", require_1h |-> TRUE, require_4h |-> TRUE, require_daily |-> TRUE,
     treat_none_as_aligned |-> TRUE, lookback_bars |-> 5]

NoHtf == [df_1h |-> <<>>, df_4h |-> <<>>, df_daily |-> <<>>]

BaseCap ==
    [require_reversal_confirmed |-> TRUE,
     stop_buffer_points_nq |-> 2, stop_buffer_points_es |-> 1,
     volume_buffer_extra_nq |-> 2, volume_buffer_extra_es |-> 1,
     volume_above_avg_mult |-> Rat(6, 5),
     min_risk_points_nq |-> 2, max_risk_points_nq |-> 3,
     min_risk_points_es |-> 1, max_risk_points_es |-> 2,
     entry_zone_tolerance_points_nq |-> 2, entry_zone_tolerance_points_es |-> 1,
     entry_fib_num |-> 1, target_rr_num |-> 10]

Config(cap, min_score, htf_cfg) ==
    [structure |-> [swing_lookback |-> 1, atr_period |-> 1,
                    order_block_displacement_bars |-> 1,
                    order_block_body_atr_mult |-> Rat(1, 2),
                    liquidity_sweep_threshold_pct |-> Rat(2, 100)],
     wick |-> [wick_to_body_ratio_min |-> Rat(2, 1), body_to_range_max |-> Rat(1, 2),
               atr_min_mult |-> Rat(3, 10), respect_bars_lookback |-> 10],
     rejection_block |-> [wick_to_body_ratio_min |-> Rat(2, 1),
                          reversal_confirmation_bars |-> 1,
                          key_level_proximity_pct |-> Rat(1, 1000),
                          volume_above_avg_mult |-> Rat(1, 1)],
     killzone |-> [london_start |-> <<2, 0>>, london_end |-> <<5, 0>>,
                   newyork_start |-> <<7, 0>>, newyork_end |-> <<10, 0>>,
                   extend_minutes_after |-> 30],
     confluence |-> [weights |-> DefaultWeights, min_score_to_alert |-> min_score],
     htf_bias |-> htf_cfg,
     target_cap |-> cap]

CapVariants ==
    {BaseCap,
     [BaseCap EXCEPT !.entry_fib_num = 0],
     [BaseCap EXCEPT !.entry_fib_num = 2],
     [BaseCap EXCEPT !.target_rr_num = 1],
     [BaseCap EXCEPT !.target_rr_num = 2],
     [BaseCap EXCEPT !.entry_zone_tolerance_points_nq = 0, !.entry_zone_tolerance_points_es = 0],
     [BaseCap EXCEPT !.entry_zone_tolerance_points_nq = 4, !.entry_zone_tolerance_points_es = 4],
     [BaseCap EXCEPT !.volume_above_avg_mult = Rat(1, 1)],
     [BaseCap EXCEPT !.min_risk_points_nq = 3, !.min_risk_points_es = 2],
     [BaseCap EXCEPT !.require_reversal_confirmed = FALSE]}

SetupConfigs ==
    {Config(cap, 4, NoHtfCfg) : cap \in CapVariants} \cup {Config(BaseCap, 3, NoHtfCfg)}

InitSetups == df = <<>> /\ call = NoCall /\ ret = <<>>

AppendSetupCandle ==
    /\ Len(df) < SetupMaxBars
    /\ \E b \in SetupCandles :
        /\ df # <<>> => b.open = Close(df, Len(df) - 1)
        /\ df' = Append(df, Row(b, NextTs(df, SetupStartUtc, "UTC")))
    /\ call' = NoCall
    /\ ret' = <<>>

CallBuildSetups ==
    /\ call = NoCall
    /\ \E symbol \in Symbols, config \in SetupConfigs :
        /\ call' = [op |-> "build_setups", symbol |-> symbol, config |-> config, htf |-> NoHtf]
        /\ ret' = build_setups(df, symbol, "5m", config, NoHtf)
    /\ UNCHANGED df

NextSetups == AppendSetupCandle \/ CallBuildSetups

SpecSetups == InitSetups /\ [][NextSetups]_vars

----------------------------------------------------------------------------
(* C1: every SetupRecord returned by build_setups has its risk, the distance  *)
(* from the entry midpoint (entry_zone_high + entry_zone_low) / 2 to the      *)
(* stop, inside [min_risk, max_risk]: the NQ band when the symbol contains    *)
(* "NQ" (as the code reads it, on the upper-cased symbol), the ES band        *)
(* otherwise.  No record outside the band is emitted.                         *)

\* "NQ" occurs in the symbol, letter case ignored
NamesNQ(symbol) ==
    \E k \in 1..(Len(symbol) - 1) : Upper(symbol)[k] = "N" /\ Upper(symbol)[k + 1] = "Q"

\* twice the risk of a record, Scale units
TwiceRisk(r) == Abs((r.entry_zone_high + r.entry_zone_low) - 2 * r.stop)

C1_RiskInBand ==
    call.op = "build_setups" =>
        LET cap == call.config.target_cap
            min_risk == IF NamesNQ(call.symbol) THEN cap.min_risk_points_nq
                        ELSE cap.min_risk_points_es
            max_risk == IF NamesNQ(call.symbol) THEN cap.max_risk_points_nq
                        ELSE cap.max_risk_points_es
        IN \A k \in DOMAIN ret :
              /\ 2 * Px(min_risk) <= TwiceRisk(ret[k])
              /\ TwiceRisk(ret[k]) <= 2 * Px(max_risk)

\* the configuration of the call with the risk band opened wide
WideBand(config) ==
    [config EXCEPT !.target_cap.min_risk_points_nq = 0, !.target_cap.max_risk_points_nq = 100,
                   !.target_cap.min_risk_points_es = 0, !.target_cap.max_risk_points_es = 100]

\* a call that emits a record whose risk is the upper end of the NQ band
C1_Witness ==
    /\ call.op = "build_setups"
    /\ NamesNQ(call.symbol)
    /\ \E k \in DOMAIN ret :
          TwiceRisk(ret[k]) = 2 * Px(call.config.target_cap.max_risk_points_nq)

\* a call that drops its only candidate: the same call with the band opened
\* wide emits it
C1_WitnessDropped ==
    /\ call.op = "build_setups"
    /\ ret = <<>>
    /\ build_setups(df, call.symbol, "5m", WideBand(call.config), call.htf) # <<>>

\* a call on the lower-case symbol that drops a candidate the ES band would keep
C1_WitnessLowerCase ==
    /\ call.op = "build_setups"
    /\ call.symbol = nq_f
    /\ ret = <<>>
    /\ build_setups(df, ES_F, "5m", call.config, call.htf) # <<>>

----------------------------------------------------------------------------
(* C3: for every SetupRecord emitted by build_setups, under every             *)
(* configuration with non-negative tolerance and buffers and positive         *)
(* target_rr: entry_zone_high >= entry_zone_low, and stop and target lie      *)
(* strictly on opposite sides of the entry zone (bullish: stop below          *)
(* entry_zone_low and target above entry_zone_high; bearish: the reverse).    *)

\* the configurations the statement is made for
C3_Admissible(cap) ==
    /\ cap.entry_zone_tolerance_points_nq >= 0 /\ cap.entry_zone_tolerance_points_es >= 0
    /\ cap.stop_buffer_points_nq >= 0 /\ cap.stop_buffer_points_es >= 0
    /\ cap.volume_buffer_extra_nq >= 0 /\ cap.volume_buffer_extra_es >= 0
    /\ cap.target_rr_num > 0

C3_Geometry ==
    (call.op = "build_setups" /\ C3_Admissible(call.config.target_cap)) =>
        \A k \in DOMAIN ret :
            /\ ret[k].entry_zone_high >= ret[k].entry_zone_low
            /\ ret[k].direction = "bullish" =>
                  ret[k].stop < ret[k].entry_zone_low /\ ret[k].target > ret[k].entry_zone_high
            /\ ret[k].direction = "bearish" =>
                  ret[k].stop > ret[k].entry_zone_high /\ ret[k].target < ret[k].entry_zone_low

\* what the code does ensure: the zone is ordered, the stop lies outside the
\* zone exactly when the risk exceeds the tolerance, and the target exactly
\* when the reward (risk * target_rr) exceeds it
C3_GeometryByRisk ==
    (call.op = "build_setups" /\ C3_Admissible(call.config.target_cap)) =>
        \A k \in DOMAIN ret :
            LET r == ret[k]
                cap == call.config.target_cap
                tol2 == r.entry_zone_high - r.entry_zone_low
                stop_outside == IF r.direction = "bullish" THEN r.stop < r.entry_zone_low
                                ELSE r.stop > r.entry_zone_high
                target_outside == IF r.direction = "bullish" THEN r.target > r.entry_zone_high
                                  ELSE r.target < r.entry_zone_low
            IN /\ tol2 >= 0
               /\ stop_outside <=> TwiceRisk(r) > tol2
               /\ target_outside <=> TwiceRisk(r) * cap.target_rr_num > tol2 * RrDen

\* a record whose stop lies inside its entry zone
C3_WitnessStopInside ==
    /\ call.op = "build_setups"
    /\ C3_Admissible(call.config.target_cap)
    /\ \E k \in DOMAIN ret :
          /\ ret[k].direction = "bullish"
          /\ ret[k].stop > ret[k].entry_zone_low
          /\ ret[k].stop < ret[k].entry_zone_high

----------------------------------------------------------------------------
(* Specification of build_setups under higher-timeframe inputs: the same 5m   *)
(* series, the base configuration, and a choice of 1h / 4h / daily frames     *)
(* and of the htf_bias section.                                               *)

\* a higher-timeframe row
HtfRow(h, l, c, k) == Row(Candle(c, h, l, c, 1), Timestamp(k * 60, "UTC"))

\* close above the one swing high: bullish
HtfUp == <<HtfRow(2, 2, 2, 0), HtfRow(3, 1, 2, 1), HtfRow(2, 2, 2, 2), HtfRow(2, 2, 2, 3), HtfRow(4, 4, 4, 4)>>

\* close below the one swing low: bearish
HtfDown == <<HtfRow(3, 3, 3, 0), HtfRow(4, 2, 3, 1), HtfRow(3, 3, 3, 2), HtfRow(3, 3, 3, 3), HtfRow(1, 1, 1, 4)>>

\* shorter than lookback_bars: no bias
HtfShort == <<HtfRow(2, 2, 2, 0), HtfRow(3, 1, 2, 1)>>

HtfFrames ==
    {NoHtf,
     [df_1h |-> HtfUp, df_4h |-> HtfUp, df_daily |-> HtfUp],
     [df_1h |-> HtfDown, df_4h |-> HtfDown, df_daily |-> HtfDown],
     [df_1h |-> HtfUp, df_4h |-> HtfDown, df_daily |-> <<>>],
     [df_1h |-> HtfShort, df_4h |-> HtfUp, df_daily |-> HtfDown]}

HtfCfgs ==
    {[enabled |-> "True", require_1h |-> TRUE, require_4h |-> r, require_daily |-> r,
      treat_none_as_aligned |-> t, lookback_bars |-> 5] : r \in BOOLEAN, t \in BOOLEAN}
    \cup {[NoHtfCfg EXCEPT !.enabled = "False"], NoHtfCfg}

HtfSymbols == {NQ_F, ES_F}

CallBuildSetupsHtf ==
    /\ call = NoCall
    /\ \E symbol \in HtfSymbols, htf_cfg \in HtfCfgs, htf \in HtfFrames :
        /\ call' = [op |-> "build_setups", symbol |-> symbol,
                    config |-> Config(BaseCap, 4, htf_cfg), htf |-> htf]
        /\ ret' = build_setups(df, symbol, "5m", Config(BaseCap, 4, htf_cfg), htf)
    /\ UNCHANGED df

NextHtf == AppendSetupCandle \/ CallBuildSetupsHtf

SpecHtf == InitSetups /\ [][NextHtf]_vars

----------------------------------------------------------------------------
(* C2: HTF alignment is a bonus, never a filter.  A run of build_setups and   *)
(* the run on the same primary bars, symbol and non-HTF configuration with    *)
(* the HTF section switched off and no higher-timeframe frames emit records   *)
(* for the same rejection blocks, in the same order, with the same timestamp, *)
(* direction, entry zone, stop and target; a record differs from its          *)
(* counterpart at most by the htf_aligned weight in the score and the HTF tag *)
(* at the end of the confluence list.  (Any two runs that differ only in the  *)
(* HTF inputs agree with this one run, hence with each other.)                *)

\* the fields of a record that say which rejection block it is and where to trade it
TradeFields(r) ==
    [symbol |-> r.symbol, timeframe |-> r.timeframe, timestamp |-> r.timestamp,
     direction |-> r.direction, entry_zone_high |-> r.entry_zone_high,
     entry_zone_low |-> r.entry_zone_low, stop |-> r.stop, target |-> r.target,
     key_level_type |-> r.key_level_type, key_level_price |-> r.key_level_price,
     rejection_candle_high |-> r.rejection_candle_high,
     rejection_candle_low |-> r.rejection_candle_low]

\* the run with HTF switched off and no frames
HtfOffRun ==
    build_setups(df, call.symbol, "5m",
                 [call.config EXCEPT !.htf_bias = [NoHtfCfg EXCEPT !.enabled = "False"]], NoHtf)

C2_WitnessBonus ==
    /\ call.op = "build_setups"
    /\ \E k \in DOMAIN ret : ret[k].score = HtfOffRun[k].score + DefaultWeights.htf_aligned

----------------------------------------------------------------------------
(* Specification of the trade simulation: a series grows bar by bar and one   *)
(* setup is put through the loop body of run_backtest (_find_setup_bar_index  *)
(* and _simulate_trade).  The setups have the shape build_setups gives them:  *)
(* a zone of +/- tolerance around the entry level, the stop one risk away,    *)
(* the target risk * target_rr on the other side.                             *)

BtMaxBars == 4

BtMaxPrice == 3

MaxFill == 2

\* the simulation reads only high and low
BtBars == {b \in WellFormedCandles(BtMaxPrice, {1}) : b.open = b.low /\ b.close = b.high}

\* a record as build_setups lays it out; prices in Scale units
MakeSetup(direction, entry_level, tolerance, risk, rr_num, ts) ==
    LET stop == IF direction = "bullish" THEN entry_level - risk ELSE entry_level + risk
    IN SetupRecord(NQ_F, "5m", direction, entry_level + tolerance, entry_level - tolerance,
                   stop, capped_target(entry_level, stop, direction, rr_num),
                   <<"Rejection Block">>, 4, ts, "Rejection Block", entry_level,
                   entry_level \div Scale + 1, entry_level \div Scale)

\* setup timestamps: before the first bar, on the first bar, between the second and the third
BtSetupTimes == {Timestamp(0 - BarMinutes, "UTC"), Timestamp(0, "UTC"), Timestamp(BarMinutes + 2, "UTC")}

BtSetups ==
    {MakeSetup(direction, entry_level, tolerance, risk, rr_num, ts) :
        direction \in {"bullish", "bearish"}, entry_level \in {6, 8}, tolerance \in {0, 2},
        risk \in {2, 4}, rr_num \in {1, 2}, ts \in BtSetupTimes}

InitBacktest == df = <<>> /\ call = NoCall /\ ret = <<>>

AppendBtBar ==
    /\ Len(df) < BtMaxBars
    /\ \E b \in BtBars : df' = Append(df, Row(b, NextTs(df, 0, "UTC")))
    /\ call' = NoCall
    /\ ret' = <<>>

CallSimulateSetup ==
    /\ call = NoCall
    /\ \E setup \in BtSetups, max_bars_to_fill \in 1..MaxFill :
        /\ call' = [op |-> "simulate_setup", setup |-> setup, max_bars_to_fill |-> max_bars_to_fill]
        /\ ret' = SimulateSetup(df, setup, max_bars_to_fill)
    /\ UNCHANGED df

NextBacktest == AppendBtBar \/ CallSimulateSetup

SpecBacktest == InitBacktest /\ [][NextBacktest]_vars

----------------------------------------------------------------------------
(* Statements about one simulated setup *)

\* the adverse extreme of bar j (low for bullish, high for bearish) reaches the stop
ReachesStop(j) ==
    IF call.setup.direction = "bullish" THEN Px(Low(df, j)) <= call.setup.stop
    ELSE Px(High(df, j)) >= call.setup.stop

\* the favourable extreme of bar j reaches the target
ReachesTarget(j) ==
    IF call.setup.direction = "bullish" THEN Px(High(df, j)) >= call.setup.target
    ELSE Px(Low(df, j)) <= call.setup.target

\* [low, high] of bar j and [entry_zone_low, entry_zone_high] have a price in common
IntersectsZone(j) ==
    Max2(Px(Low(df, j)), call.setup.entry_zone_low)
        <= Min2(Px(High(df, j)), call.setup.entry_zone_high)

\* the call in flight filled at some bar
Filled == call.op = "simulate_setup" /\ ret.entry_bar # <<>>

(* C4: stop-before-target tie-break.  Whenever a bar at or after the fill bar *)
(* (the fill bar included) reaches both the stop and the target and no        *)
(* earlier bar since the fill reached either, the TradeResult is a loss with  *)
(* exit_price = stop; a win is never reported for a bar that also reaches the *)
(* stop.                                                                      *)
C4_StopBeforeTarget ==
    Filled =>
        LET f == ret.entry_bar[1]
        IN /\ \A j \in f..(Len(df) - 1) :
                 (/\ ReachesStop(j) /\ ReachesTarget(j)
                  /\ \A i \in f..(j - 1) : ~ReachesStop(i) /\ ~ReachesTarget(i))
                 => /\ ret.tr # <<>>
                    /\ ret.tr[1].outcome = "loss"
                    /\ ret.tr[1].exit_price = call.setup.stop
           /\ (ret.tr # <<>> /\ ret.tr[1].outcome = "win")
                 => ~ReachesStop(f + ret.tr[1].bars_held)

\* the fill bar itself reaches both levels, the stop and the target being
\* different prices on either side of the zone
C4_Witness ==
    /\ Filled
    /\ ReachesStop(ret.entry_bar[1]) /\ ReachesTarget(ret.entry_bar[1])
    /\ call.setup.stop < call.setup.entry_zone_low
    /\ call.setup.target > call.setup.entry_zone_high
    /\ ret.tr # <<>>

\* a later bar reaches both levels after bars that reached neither
C4_WitnessLater ==
    /\ Filled
    /\ ret.tr # <<>> /\ ret.tr[1].bars_held >= 1
    /\ ReachesStop(ret.entry_bar[1] + ret.tr[1].bars_held)
    /\ ReachesTarget(ret.entry_bar[1] + ret.tr[1].bars_held)

(* C5: fill rule.  The anchor a is the last bar whose timestamp is <= the     *)
(* setup timestamp.  The fill bar is the smallest j with                      *)
(* a < j <= a + max_bars_to_fill and j < len whose [low, high] intersects     *)
(* [entry_zone_low, entry_zone_high] (ends included); the anchor itself is    *)
(* never the fill bar; with no such j (or no anchor) there is no TradeResult. *)
C5_FillRule ==
    call.op = "simulate_setup" =>
        LET anchors == {a \in 0..(Len(df) - 1) :
                           /\ IndexTs(df, a).utc <= call.setup.timestamp.utc
                           /\ \A i \in (a + 1)..(Len(df) - 1) :
                                 IndexTs(df, i).utc > call.setup.timestamp.utc}
        IN IF anchors = {} THEN ret.idx = <<>> /\ ret.tr = <<>>
           ELSE LET a == CHOOSE x \in anchors : TRUE
                    js == {j \in (a + 1)..(a + call.max_bars_to_fill) :
                              j < Len(df) /\ IntersectsZone(j)}
                IN /\ ret.idx = <<a>>
                   /\ IF js = {} THEN ret.entry_bar = <<>> /\ ret.tr = <<>>
                      ELSE /\ ret.entry_bar # <<>>
                           /\ ret.entry_bar[1] \in js
                           /\ \A j \in js : ret.entry_bar[1] <= j
                           /\ ret.entry_bar[1] # a

\* the anchor bar and the bar after it: the anchor intersects the zone, the
\* next bar does not, and the fill comes at the second bar after the anchor
C5_Witness ==
    /\ Filled
    /\ IntersectsZone(ret.idx[1])
    /\ ~IntersectsZone(ret.idx[1] + 1)
    /\ ret.entry_bar[1] = ret.idx[1] + 2

\* a bar beyond the window intersects the zone: no fill
C5_WitnessNoFill ==
    /\ call.op = "simulate_setup"
    /\ ret.idx # <<>> /\ ret.entry_bar = <<>>
    /\ call.max_bars_to_fill = 1
    /\ ret.idx[1] + 2 < Len(df)
    /\ IntersectsZone(ret.idx[1] + 2)

(* C6: outcome rule.  Given the fill bar f, the trade is decided at the       *)
(* smallest j >= f at which the adverse extreme reaches the stop or the       *)
(* favourable extreme reaches the target; exit_price is the level hit and     *)
(* bars_held = j - f >= 0; when the series ends with neither level reached    *)
(* there is no TradeResult, so every TradeResult is a win or a loss.          *)
C6_OutcomeRule ==
    call.op = "simulate_setup" =>
        /\ ret.entry_bar = <<>> => ret.tr = <<>>
        /\ ret.tr # <<>> => ret.tr[1].outcome \in {"win", "loss"}
        /\ Filled =>
              LET f == ret.entry_bar[1]
                  js == {j \in f..(Len(df) - 1) : ReachesStop(j) \/ ReachesTarget(j)}
              IN IF js = {} THEN ret.tr = <<>>
                 ELSE LET j == SetMin(js)
                          tr == ret.tr[1]
                      IN /\ ret.tr # <<>>
                         /\ tr.setup = call.setup
                         /\ tr.bars_held = j - f
                         /\ tr.bars_held >= 0
                         /\ tr.outcome = "loss" => ReachesStop(j) /\ tr.exit_price = call.setup.stop
                         /\ tr.outcome = "win" => ReachesTarget(j) /\ tr.exit_price = call.setup.target

\* a win decided two bars after the fill
C6_Witness ==
    /\ Filled
    /\ ret.tr # <<>>
    /\ ret.tr[1].outcome = "win"
    /\ ret.tr[1].bars_held = 2

\* a fill with neither level reached before the series ends
C6_WitnessOpen ==
    /\ Filled
    /\ ret.tr = <<>>
    /\ Len(df) = BtMaxBars

----------------------------------------------------------------------------
(* Specification of the simulation loop of run_backtest: over a fixed series  *)
(* the setups of all_setups are simulated one after the other, the same       *)
(* setup possibly more than once and in any position among the others.        *)

\* max_bars_to_fill as run_backtest passes it
RunMaxBarsToFill == 10

ReplayLen == 3

ReplaySetups ==
    {MakeSetup("bullish", 8, 0, 4, 1, Timestamp(0, "UTC")),
     MakeSetup("bearish", 8, 0, 4, 1, Timestamp(0, "UTC")),
     MakeSetup("bullish", 6, 2, 2, 2, Timestamp(BarMinutes + 2, "UTC")),
     MakeSetup("bearish", 6, 2, 2, 2, Timestamp(0 - BarMinutes, "UTC"))}

\* the loop is entered with all_setups collected and results empty
StartBacktest ==
    /\ call = NoCall
    /\ df # <<>>
    /\ \E all_setups \in [1..ReplayLen -> ReplaySetups] :
          call' = [op |-> "run_backtest", all_setups |-> all_setups, pos |-> 0]
    /\ ret' = <<>>
    /\ UNCHANGED df

\* one iteration of the loop over all_setups; ret holds, per setup done, the
\* locals of its iteration (results is the list of their tr that are not None)
SimulateNext ==
    /\ call.op = "run_backtest"
    /\ call.pos < Len(call.all_setups)
    /\ ret' = Append(ret, SimulateSetup(df, call.all_setups[call.pos + 1], RunMaxBarsToFill))
    /\ call' = [call EXCEPT !.pos = call.pos + 1]
    /\ UNCHANGED df

NextReplay == AppendBtBar \/ StartBacktest \/ SimulateNext

SpecReplay == InitBacktest /\ [][NextReplay]_vars

\* within one run, equal setups have equal outcomes, whatever was simulated in between
ReplayAgrees ==
    call.op = "run_backtest" =>
        \A i, j \in DOMAIN ret : call.all_setups[i] = call.all_setups[j] => ret[i] = ret[j]

\* a simulation step leaves the bars and the setups as they were
ReplayFrame ==
    (call.op = "run_backtest" /\ call'.op = "run_backtest") =>
        df' = df /\ call'.all_setups = call.all_setups

----------------------------------------------------------------------------
(* Specification of the session windows: get_killzone_name and in_killzone    *)
(* are called on every minute of a (winter) day, timezone-aware or naive,     *)
(* under the default windows and under windows that start on a half hour,     *)
(* overlap, or run over midnight.                                             *)

MinutesPerDay == 24 * 60

DefaultKillzone ==
    [london_start |-> <<2, 0>>, london_end |-> <<5, 0>>,
     newyork_start |-> <<7, 0>>, newyork_end |-> <<10, 0>>, extend_minutes_after |-> 30]

KillzoneCfgs ==
    {DefaultKillzone,
     [DefaultKillzone EXCEPT !.london_start = <<2, 30>>, !.newyork_end = <<9, 45>>,
                             !.extend_minutes_after = 0],
     [DefaultKillzone EXCEPT !.london_end = <<7, 0>>],
     [DefaultKillzone EXCEPT !.london_start = <<22, 0>>, !.london_end = <<1, 0>>]}

KillzoneTimes == {Timestamp(utc, tz) : utc \in 0..(MinutesPerDay - 1), tz \in {"UTC", "none"}}

InitKillzone == df = <<>> /\ call = NoCall /\ ret = <<>>

CallGetKillzoneName ==
    /\ call = NoCall
    /\ \E ts \in KillzoneTimes, kz \in KillzoneCfgs :
        /\ call' = [op |-> "get_killzone_name", ts |-> ts, kz |-> kz]
        /\ ret' = get_killzone_name(ts, kz)
    /\ UNCHANGED df

CallInKillzone ==
    /\ call = NoCall
    /\ \E ts \in KillzoneTimes, kz \in KillzoneCfgs :
        /\ call' = [op |-> "in_killzone", ts |-> ts, kz |-> kz]
        /\ ret' = in_killzone(ts, kz)
    /\ UNCHANGED df

NextKillzone == CallGetKillzoneName \/ CallInKillzone

SpecKillzone == InitKillzone /\ [][NextKillzone]_vars

\* minute-of-day, New York local, of the timestamp of the call
CallMinute == MinuteOfDay(call.ts)

\* "HH:MM" as minutes
HM(t) == 60 * t[1] + t[2]

\* start <= minute-of-day <= end + e, for the London and the New York window of the call
InLondon ==
    /\ HM(call.kz.london_start) <= CallMinute
    /\ CallMinute <= HM(call.kz.london_end) + call.kz.extend_minutes_after

InNewYork ==
    /\ HM(call.kz.newyork_start) <= CallMinute
    /\ CallMinute <= HM(call.kz.newyork_end) + call.kz.extend_minutes_after

(* C11: session-window boundaries.  For a window with start <= end and        *)
(* extension e, a timezone-aware timestamp is inside the window iff           *)
(* start <= minute-of-day (New York local) <= end + e: London is named        *)
(* exactly then; New York is named exactly then unless London, tested first,  *)
(* already holds the timestamp.  The start minute is inside, the minute after *)
(* end + e is outside.  in_killzone is true iff get_killzone_name returns a   *)
(* name.  Default windows: 03:00 london, 08:00 newyork, 12:00 none.           *)
C11_WindowBounds ==
    /\ (call.op = "get_killzone_name" /\ call.ts.tz # "none") =>
          /\ HM(call.kz.london_start) <= HM(call.kz.london_end) =>
                (ret = "london" <=> InLondon)
          /\ HM(call.kz.newyork_start) <= HM(call.kz.newyork_end) =>
                /\ ret = "newyork" <=> (InNewYork /\ ret # "london")
                /\ InNewYork => ret # "None"
          /\ call.kz = DefaultKillzone =>
                /\ CallMinute = 3 * 60 => ret = "london"
                /\ CallMinute = 8 * 60 => ret = "newyork"
                /\ CallMinute = 12 * 60 => ret = "None"
    /\ call.op = "in_killzone" =>
          (ret <=> get_killzone_name(call.ts, call.kz) # "None")

\* the start minute of a window that starts on a half hour
C11_Witness ==
    /\ call.op = "get_killzone_name"
    /\ call.ts.tz # "none"
    /\ call.kz.london_start = <<2, 30>>
    /\ CallMinute = 2 * 60 + 30
    /\ ret = "london"

C11_WitnessAfterEnd ==
    /\ call.op = "get_killzone_name"
    /\ call.ts.tz # "none"
    /\ call.kz = DefaultKillzone
    /\ CallMinute = 5 * 60 + 31
    /\ ret = "None"

C11_WitnessInKillzone ==
    /\ call.op = "in_killzone"
    /\ call.ts.tz # "none"
    /\ CallMinute = HM(call.kz.newyork_end) + call.kz.extend_minutes_after
    /\ ret = TRUE

----------------------------------------------------------------------------
(* Specification of build_setups across sessions: the 5m series starts just   *)
(* before the London window, just before the New York window, at noon, or     *)
(* carries a timezone-naive index.                                            *)

\* 06:50 and 11:50 UTC are 01:50 and 06:50 in New York, 17:00 UTC is noon
SessionStarts ==
    {Timestamp(6 * 60 + 50, "UTC"), Timestamp(11 * 60 + 50, "UTC"),
     Timestamp(17 * 60, "UTC"), Timestamp(6 * 60 + 50, "none")}

SessionConfigs ==
    {Config(BaseCap, 4, NoHtfCfg), Config(BaseCap, 3, NoHtfCfg),
     Config([BaseCap EXCEPT !.require_reversal_confirmed = FALSE], 3, NoHtfCfg)}

AppendSessionCandle ==
    /\ Len(df) < SetupMaxBars
    /\ \E b \in SetupCandles :
        /\ df # <<>> => b.open = Close(df, Len(df) - 1)
        /\ \E start \in SessionStarts :
            /\ df # <<>> => start = IndexTs(df, 0)
            /\ df' = Append(df, Row(b, NextTs(df, start.utc, start.tz)))
    /\ call' = NoCall
    /\ ret' = <<>>

CallBuildSetupsSession ==
    /\ call = NoCall
    /\ \E symbol \in HtfSymbols, config \in SessionConfigs :
        /\ call' = [op |-> "build_setups", symbol |-> symbol, config |-> config, htf |-> NoHtf]
        /\ ret' = build_setups(df, symbol, "5m", config, NoHtf)
    /\ UNCHANGED df

NextSession == AppendSessionCandle \/ CallBuildSetupsSession

SpecSession == InitSetups /\ [][NextSession]_vars

\* the session window that holds a timestamp, by the windows of the call
\* (each with start <= end): "None" for a naive timestamp or one outside both
WindowOf(ts) ==
    LET kz == call.config.killzone
        minute == (ts.utc - 5 * 60) % MinutesPerDay
    IN IF ts.tz = "none" THEN "None"
       ELSE IF /\ HM(kz.london_start) <= minute
               /\ minute <= HM(kz.london_end) + kz.extend_minutes_after THEN "london"
       ELSE IF /\ HM(kz.newyork_start) <= minute
               /\ minute <= HM(kz.newyork_end) + kz.extend_minutes_after THEN "newyork"
       ELSE "None"

\* the elements of a sequence
Elems(seq) == {seq[k] : k \in DOMAIN seq}

(* C12: session filter.  Every record build_setups emits comes from a         *)
(* rejection block whose timestamp lies inside a configured session window,   *)
(* and its confluence list holds the Killzone tag of that window; a rejection *)
(* block whose timestamp is outside every window, a timezone-naive one        *)
(* included, never produces a record.                                         *)
C12_SessionFilter ==
    call.op = "build_setups" =>
        LET rbs == find_rejection_blocks(df, RbArgs(call.config))
        IN /\ \A k \in DOMAIN ret :
                 /\ \E j \in DOMAIN rbs : rbs[j].timestamp = ret[k].timestamp
                 /\ WindowOf(ret[k].timestamp) # "None"
                 /\ WindowOf(ret[k].timestamp) = "london" =>
                       "Killzone (london)" \in Elems(ret[k].confluences)
                 /\ WindowOf(ret[k].timestamp) = "newyork" =>
                       "Killzone (newyork)" \in Elems(ret[k].confluences)
           /\ \A j \in DOMAIN rbs :
                 WindowOf(rbs[j].timestamp) = "None" =>
                    \A k \in DOMAIN ret : ret[k].timestamp # rbs[j].timestamp

\* a record from the New York window, next to a rejection block before the
\* window that produced none, in a call that asks for no reversal confirmation
C12_Witness ==
    /\ call.op = "build_setups"
    /\ ~call.config.target_cap.require_reversal_confirmed
    /\ \E k \in DOMAIN ret : "Killzone (newyork)" \in Elems(ret[k].confluences)
    /\ \E j \in DOMAIN find_rejection_blocks(df, RbArgs(call.config)) :
          WindowOf(find_rejection_blocks(df, RbArgs(call.config))[j].timestamp) = "None"

\* a confirmed rejection block on a naive index: no record
C12_WitnessNaive ==
    /\ call.op = "build_setups"
    /\ ret = <<>>
    /\ \E j \in DOMAIN find_rejection_blocks(df, RbArgs(call.config)) :
          LET rb == find_rejection_blocks(df, RbArgs(call.config))[j]
          IN rb.timestamp.tz = "none" /\ rb.reversal_confirmed /\ rb.bar_index = 2

----------------------------------------------------------------------------
(* C13: minimum score.  No record is emitted for a rejection block whose      *)
(* score from the rejection-block, session-window, wick-respect and key-level *)
(* weights is below min_score; the htf_aligned weight is added after the test *)
(* and cannot lift a candidate over it; with a non-negative htf_aligned       *)
(* weight every emitted score is >= min_score.                                *)

HtfTag == "HTF aligned (1H+4H+daily)"

\* the weight a confluence tag stands for
TagWeight(tag, weights) ==
    IF tag = "Rejection Block" THEN weights.rejection_block
    ELSE IF tag \in {"Killzone (london)", "Killzone (newyork)"} THEN weights.killzone
    ELSE IF tag = "Wick 50% respect" THEN weights.wick_respect
    ELSE IF tag = "Order Block" THEN weights.order_block
    ELSE IF tag = "FVG" THEN weights.fvg
    ELSE IF tag = "Liquidity sweep" THEN weights.liquidity_sweep
    ELSE IF tag = "Swing level" THEN weights.swing_level
    ELSE IF tag = HtfTag THEN weights.htf_aligned
    ELSE 0

\* the score of a record without its HTF tag, from its confluence list
ScoreBeforeHtf(r, weights) ==
    SumSeq([k \in DOMAIN r.confluences |->
               IF r.confluences[k] = HtfTag THEN 0 ELSE TagWeight(r.confluences[k], weights)])

C13_MinScore ==
    call.op = "build_setups" =>
        LET weights == call.config.confluence.weights
            min_score == call.config.confluence.min_score_to_alert
        IN \A k \in DOMAIN ret :
              /\ ScoreBeforeHtf(ret[k], weights) >= min_score
              /\ ret[k].score = ScoreBeforeHtf(ret[k], weights)
                    + (IF HtfTag \in Elems(ret[k].confluences) THEN weights.htf_aligned ELSE 0)
              /\ weights.htf_aligned >= 0 => ret[k].score >= min_score

\* the call with min_score lowered by one
LowerMinScore(config) ==
    [config EXCEPT !.confluence.min_score_to_alert = config.confluence.min_score_to_alert - 1]

\* a candidate one short of min_score that is HTF-aligned: the call emits
\* nothing, and with min_score one lower it emits it with a score above the
\* min_score of the call
C13_Witness ==
    /\ call.op = "build_setups"
    /\ ret = <<>>
    /\ \E k \in DOMAIN build_setups(df, call.symbol, "5m", LowerMinScore(call.config), call.htf) :
          LET r == build_setups(df, call.symbol, "5m", LowerMinScore(call.config), call.htf)[k]
          IN /\ HtfTag \in Elems(r.confluences)
             /\ r.score >= call.config.confluence.min_score_to_alert

\* a record emitted with exactly min_score before the HTF weight
C13_WitnessAtThreshold ==
    /\ call.op = "build_setups"
    /\ \E k \in DOMAIN ret :
          ScoreBeforeHtf(ret[k], call.config.confluence.weights)
             = call.config.confluence.min_score_to_alert

----------------------------------------------------------------------------
(* Specification of build_setups on series with room for two wick events of   *)
(* one direction that resolve differently: four gapless bars over four price  *)
(* levels, the base configuration with and without the reversal requirement.  *)

WickMaxBars == 4

WickMaxPrice == 4

WickCandles == WellFormedCandles(WickMaxPrice, {1})

WickConfigs ==
    {Config(BaseCap, 3, NoHtfCfg),
     Config([BaseCap EXCEPT !.require_reversal_confirmed = FALSE], 3, NoHtfCfg)}

AppendWickCandle ==
    /\ Len(df) < WickMaxBars
    /\ \E b \in WickCandles :
        /\ df # <<>> => b.open = Close(df, Len(df) - 1)
        /\ df' = Append(df, Row(b, NextTs(df, SetupStartUtc, "UTC")))
    /\ call' = NoCall
    /\ ret' = <<>>

CallBuildSetupsWick ==
    /\ call = NoCall
    /\ \E symbol \in {NQ_F, ES_F}, config \in WickConfigs :
        /\ call' = [op |-> "build_setups", symbol |-> symbol, config |-> config, htf |-> NoHtf]
        /\ ret' = build_setups(df, symbol, "5m", config, NoHtf)
    /\ UNCHANGED df

NextWick == AppendWickCandle \/ CallBuildSetupsWick

SpecWick == InitSetups /\ [][NextWick]_vars

----------------------------------------------------------------------------
(* C14: wick-respect bonus.  build_setups adds the wick_respect weight and    *)
(* the "Wick 50% respect" tag to a rejection block's score, exactly once, if  *)
(* and only if there exists a wick event of the same direction whose bar      *)
(* index is within 3 bars of the block's bar index and whose respect resolved *)
(* to true.                                                                   *)

WickTag == "Wick 50% respect"

\* the bar a record was built from: the bar of its timestamp
BarOf(r) == CHOOSE i \in 0..(Len(df) - 1) : IndexTs(df, i) = r.timestamp

\* the number of times a tag stands in a confluence list
TagCount(confluences, tag) == Cardinality({k \in DOMAIN confluences : confluences[k] = tag})

\* a same-direction wick event within 3 bars of the record's bar that resolved to respect
RespectingWickNear(r, wick_events) ==
    \E k \in DOMAIN wick_events :
        /\ wick_events[k].direction = r.direction
        /\ Abs(wick_events[k].bar_index - BarOf(r)) <= 3
        /\ wick_events[k].respect = "True"

C14_WickBonus ==
    call.op = "build_setups" =>
        LET wick_events == find_wick_events(df, WickArgs(call.config))
        IN \A k \in DOMAIN ret :
              /\ TagCount(ret[k].confluences, WickTag) <= 1
              /\ TagCount(ret[k].confluences, WickTag) = 1 <=> RespectingWickNear(ret[k], wick_events)
              /\ ret[k].score = SumSeq([j \in DOMAIN ret[k].confluences |->
                                   TagWeight(ret[k].confluences[j], call.config.confluence.weights)])

\* what the loop does: only the first wick event of the block's direction, in
\* bar order, is looked at
FirstSameDirection(r, wick_events) ==
    LET same == {k \in DOMAIN wick_events : wick_events[k].direction = r.direction}
    IN IF same = {} THEN <<>> ELSE <<wick_events[SetMin(same)]>>

C14_FirstEventOnly ==
    call.op = "build_setups" =>
        LET wick_events == find_wick_events(df, WickArgs(call.config))
        IN \A k \in DOMAIN ret :
              LET first == FirstSameDirection(ret[k], wick_events)
              IN /\ TagCount(ret[k].confluences, WickTag) <= 1
                 /\ TagCount(ret[k].confluences, WickTag) = 1
                      <=> /\ first # <<>>
                          /\ Abs(first[1].bar_index - BarOf(ret[k])) <= 3
                          /\ first[1].respect = "True"

\* a record without the tag although a same-direction wick event within 3
\* bars resolved to respect: an earlier same-direction event did not
C14_WitnessLaterRespect ==
    /\ call.op = "build_setups"
    /\ \E k \in DOMAIN ret :
          /\ TagCount(ret[k].confluences, WickTag) = 0
          /\ RespectingWickNear(ret[k], find_wick_events(df, WickArgs(call.config)))

\* a record with the tag
C14_WitnessTagged ==
    /\ call.op = "build_setups"
    /\ \E k \in DOMAIN ret : TagCount(ret[k].confluences, WickTag) = 1

----------------------------------------------------------------------------
(* C15: target construction.  For every emitted SetupRecord, target = entry   *)
(* midpoint + risk * target_rr (bullish) or entry midpoint - risk * target_rr *)
(* (bearish), with risk = |entry midpoint - stop|: the reward distance is     *)
(* exactly target_rr times the risk distance; and the stop is the rejection   *)
(* candle's low minus the buffer (bullish) or its high plus the buffer        *)
(* (bearish).                                                                 *)

\* the buffer of a call on a series shorter than the volume window, where the
\* candle's volume is its own average: the base buffer, widened by the extra
\* when the volume is positive and the multiple is at most 1
BufferOf(r) ==
    LET cap == call.config.target_cap
        is_nq == NamesNQ(call.symbol)
        base == IF is_nq THEN cap.stop_buffer_points_nq ELSE cap.stop_buffer_points_es
        extra == IF is_nq THEN cap.volume_buffer_extra_nq ELSE cap.volume_buffer_extra_es
        vol == Volume(df, BarOf(r))
    IN IF vol > 0 /\ cap.volume_above_avg_mult.n <= cap.volume_above_avg_mult.d
       THEN base + extra ELSE base

C15_Target ==
    call.op = "build_setups" =>
        \A k \in DOMAIN ret :
            LET r == ret[k]
                rr_num == call.config.target_cap.target_rr_num
                mid2 == r.entry_zone_high + r.entry_zone_low
            IN /\ r.direction = "bullish" =>
                    /\ 2 * RrDen * r.target = RrDen * mid2 + TwiceRisk(r) * rr_num
                    /\ r.stop = Px(r.rejection_candle_low) - Px(BufferOf(r))
               /\ r.direction = "bearish" =>
                    /\ 2 * RrDen * r.target = RrDen * mid2 - TwiceRisk(r) * rr_num
                    /\ r.stop = Px(r.rejection_candle_high) + Px(BufferOf(r))
               /\ RrDen * Abs(2 * r.target - mid2) = rr_num * TwiceRisk(r)
               /\ r.rejection_candle_low = Low(df, BarOf(r))
               /\ r.rejection_candle_high = High(df, BarOf(r))

\* a bearish record under a reward multiple other than 1: the target lies
\* below the entry midpoint by target_rr times the risk
C15_Witness ==
    /\ call.op = "build_setups"
    /\ call.config.target_cap.target_rr_num # RrDen
    /\ \E k \in DOMAIN ret :
          /\ ret[k].direction = "bearish"
          /\ 2 * ret[k].target < ret[k].entry_zone_high + ret[k].entry_zone_low
          /\ TwiceRisk(ret[k]) > 0

\* a bullish record whose stop carries the widened buffer
C15_WitnessWidened ==
    /\ call.op = "build_setups"
    /\ \E k \in DOMAIN ret :
          /\ ret[k].direction = "bullish"
          /\ ret[k].stop = Px(ret[k].rejection_candle_low)
                - Px(call.config.target_cap.stop_buffer_points_es
                     + call.config.target_cap.volume_buffer_extra_es)

\* a record under the reward multiple 1/2
C15_WitnessHalf ==
    /\ call.op = "build_setups"
    /\ call.config.target_cap.target_rr_num = 1
    /\ ret # <<>>

----------------------------------------------------------------------------
(* Specification of get_htf_bias: a higher-timeframe frame of up to five bars *)
(* of bounded range over five price levels, and a call with a lookback        *)
(* shorter than, equal to or longer than the frame.                           *)

BiasMaxBars == 5

BiasMaxPrice == 5

\* the largest high - low of a row
BiasMaxRange == 1

\* higher-timeframe rows: get_htf_bias reads high, low and close
BiasRows ==
    {b \in WellFormedCandles(BiasMaxPrice, {1}) : b.open = b.close /\ b.high - b.low <= BiasMaxRange}

\* lookback_bars: below 5 (swing radius 0), 5 (radius 1), and beyond the frame
BiasLookbacks == {3, 5, BiasMaxBars + 1}

AppendBiasRow ==
    /\ Len(df) < BiasMaxBars
    /\ \E b \in BiasRows : df' = Append(df, Row(b, Timestamp(Len(df) * 60, "UTC")))
    /\ call' = NoCall
    /\ ret' = <<>>

CallGetHtfBias ==
    /\ call = NoCall
    /\ \E lookback \in BiasLookbacks :
        /\ call' = [op |-> "get_htf_bias", lookback |-> lookback]
        /\ ret' = get_htf_bias(df, lookback)
    /\ UNCHANGED df

NextBias == AppendBiasRow \/ CallGetHtfBias

SpecBias == InitSetups /\ [][NextBias]_vars

\* the last lookback bars of the frame of the call
BiasWindow == Tail_n(df, call.lookback)

\* the radius of the swing scan: min(5, lookback // 5)
SwingRadius == Min2(5, call.lookback \div 5)

\* the bars of the window that the swing scan visits
ScannedBars == {i \in 0..(Len(BiasWindow) - 1) :
                   SwingRadius <= i /\ i < Len(BiasWindow) - SwingRadius}

\* the prices of the swing highs of the window
SwingHighPrices ==
    {High(BiasWindow, i) : i \in {j \in ScannedBars :
        \A m \in (j - SwingRadius)..(j + SwingRadius) : High(BiasWindow, m) <= High(BiasWindow, j)}}

\* the prices of the swing lows of the window
SwingLowPrices ==
    {Low(BiasWindow, i) : i \in {j \in ScannedBars :
        \A m \in (j - SwingRadius)..(j + SwingRadius) : Low(BiasWindow, m) >= Low(BiasWindow, j)}}

LatestClose == Close(df, Len(df) - 1)

AboveSwingHighs == SwingHighPrices # {} /\ \A x \in SwingHighPrices : LatestClose > x

BelowSwingLows == SwingLowPrices # {} /\ \A x \in SwingLowPrices : LatestClose < x

C16_WitnessBullish == call.op = "get_htf_bias" /\ ret = "bullish"

C16_WitnessBearish == call.op = "get_htf_bias" /\ ret = "bearish"

\* a frame shorter than the lookback
C16_WitnessShort ==
    call.op = "get_htf_bias" /\ df # <<>> /\ Len(df) < call.lookback /\ ret = "None"

\* a window cut from a longer frame
C16_WitnessTail ==
    call.op = "get_htf_bias" /\ Len(df) > call.lookback /\ call.lookback >= 3

----------------------------------------------------------------------------
(* Specification of htf_aligned: one call on any direction, any three biases, *)
(* any required flags and either treat_none_as_aligned policy.                *)

Directions == {"bullish", "bearish", "neutral", ""}

Biases == {"bullish", "bearish", "None"}

CallHtfAligned ==
    /\ call = NoCall
    /\ \E direction \in Directions, bias_1h \in Biases, bias_4h \in Biases, bias_daily \in Biases,
          require_1h \in BOOLEAN, require_4h \in BOOLEAN, require_daily \in BOOLEAN,
          treat_none_as_aligned \in BOOLEAN :
        /\ call' = [op |-> "htf_aligned", direction |-> direction,
                    bias |-> <<bias_1h, bias_4h, bias_daily>>,
                    require |-> <<require_1h, require_4h, require_daily>>,
                    treat_none_as_aligned |-> treat_none_as_aligned]
        /\ ret' = htf_aligned(direction, bias_1h, bias_4h, bias_daily,
                              require_1h, require_4h, require_daily, treat_none_as_aligned)
    /\ UNCHANGED df

NextAligned == CallHtfAligned

SpecAligned == InitSetups /\ [][NextAligned]_vars

Opposite(direction) == IF direction = "bullish" THEN "bearish" ELSE "bullish"

\* htf_aligned on the inputs of the call, with other biases and policy
AlignedWith(bias, treat_none_as_aligned) ==
    htf_aligned(call.direction, bias[1], bias[2], bias[3],
                call.require[1], call.require[2], call.require[3], treat_none_as_aligned)

(* C17: for every combination of direction, three biases in {bullish,         *)
(* bearish, none}, three required flags and treat_none_as_aligned,            *)
(* htf_aligned is false if the direction is not bullish or bearish; otherwise *)
(* in strict mode it is true iff every required timeframe's bias equals the   *)
(* direction, and in soft mode iff no required timeframe has the opposite     *)
(* bias; non-required timeframes never affect the result, and strict          *)
(* alignment implies soft alignment.                                          *)
C17_Alignment ==
    call.op = "htf_aligned" =>
        /\ ret \in BOOLEAN
        /\ call.direction \notin {"bullish", "bearish"} => ret = FALSE
        /\ (call.direction \in {"bullish", "bearish"} /\ ~call.treat_none_as_aligned) =>
              (ret <=> \A k \in 1..3 : call.require[k] => call.bias[k] = call.direction)
        /\ (call.direction \in {"bullish", "bearish"} /\ call.treat_none_as_aligned) =>
              (ret <=> \A k \in 1..3 : call.require[k] => call.bias[k] # Opposite(call.direction))
        /\ \A other \in [1..3 -> Biases] :
              (\A k \in 1..3 : call.require[k] => other[k] = call.bias[k])
                 => AlignedWith(other, call.treat_none_as_aligned) = ret
        /\ AlignedWith(call.bias, FALSE) => AlignedWith(call.bias, TRUE)

\* soft mode, a required timeframe undetermined and a non-required one
\* opposite: aligned
C17_Witness ==
    /\ call.op = "htf_aligned"
    /\ call.direction = "bearish"
    /\ call.treat_none_as_aligned
    /\ \E k \in 1..3 : call.require[k] /\ call.bias[k] = "None"
    /\ \E k \in 1..3 : ~call.require[k] /\ call.bias[k] = "bullish"
    /\ ret = TRUE

\* strict mode, a required timeframe undetermined: not aligned
C17_WitnessStrict ==
    /\ call.op = "htf_aligned"
    /\ call.direction = "bullish"
    /\ ~call.treat_none_as_aligned
    /\ \E k \in 1..3 : call.require[k] /\ call.bias[k] = "None"
    /\ \A k \in 1..3 : call.bias[k] # "bearish"
    /\ ret = FALSE

\* a direction that is neither bullish nor bearish, nothing required
C17_WitnessDirection ==
    /\ call.op = "htf_aligned"
    /\ call.direction = "neutral"
    /\ \A k \in 1..3 : ~call.require[k]
    /\ ret = FALSE

----------------------------------------------------------------------------
(* Specification of build_setups on series that lie wholly inside the London  *)
(* window, so that one call can emit a record for more than one bar.          *)

RankMaxBars == 4

RankMaxPrice == 3

\* 07:00 UTC = 02:00 New York: the start of the London window
RankStartUtc == 7 * 60

RankCandles == WellFormedCandles(RankMaxPrice, {1})

RankConfigs ==
    {Config(BaseCap, 3, NoHtfCfg),
     Config([BaseCap EXCEPT !.require_reversal_confirmed = FALSE], 3, NoHtfCfg),
     Config([BaseCap EXCEPT !.require_reversal_confirmed = FALSE], 4, NoHtfCfg)}

AppendRankCandle ==
    /\ Len(df) < RankMaxBars
    /\ \E b \in RankCandles :
        /\ df # <<>> => b.open = Close(df, Len(df) - 1)
        /\ df' = Append(df, Row(b, NextTs(df, RankStartUtc, "UTC")))
    /\ call' = NoCall
    /\ ret' = <<>>

CallBuildSetupsRank ==
    /\ call = NoCall
    /\ \E symbol \in {NQ_F, ES_F}, config \in RankConfigs :
        /\ call' = [op |-> "build_setups", symbol |-> symbol, config |-> config, htf |-> NoHtf]
        /\ ret' = build_setups(df, symbol, "5m", config, NoHtf)
    /\ UNCHANGED df

NextRank == AppendRankCandle \/ CallBuildSetupsRank

SpecRank == InitSetups /\ [][NextRank]_vars

(* C18: output ranking.  The list of SetupRecords returned by build_setups is *)
(* ranked by confluence score: no record appears after a record with a        *)
(* strictly lower score.                                                      *)
C18_RankedByScore ==
    call.op = "build_setups" =>
        \A j \in DOMAIN ret : \A k \in DOMAIN ret : j < k => ret[j].score >= ret[k].score

\* what the code does: the records stand in the bar order of their rejection
\* blocks, at most one per bar
C18_BarOrder ==
    call.op = "build_setups" =>
        \A j \in DOMAIN ret : \A k \in DOMAIN ret : j < k => BarOf(ret[j]) < BarOf(ret[k])

\* two records, the later one with the higher score
C18_WitnessAscending ==
    /\ call.op = "build_setups"
    /\ \E j \in DOMAIN ret : \E k \in DOMAIN ret : j < k /\ ret[j].score < ret[k].score

\* two records, the later one with the lower score
C18_WitnessDescending ==
    /\ call.op = "build_setups"
    /\ \E j \in DOMAIN ret : \E k \in DOMAIN ret : j < k /\ ret[j].score > ret[k].score

----------------------------------------------------------------------------
(* Specification of the summary of run_backtest: results arrive one trade at  *)
(* a time, wins and losses of setups of two risk sizes, and the summary is    *)
(* computed over the results so far.                                          *)

MaxTrades == 6

MaxBarsHeld == 1

\* a long risking one point and a short risking two, both with target_rr 2
SummarySetups ==
    {MakeSetup("bullish", 8, 2, 4, 4, Timestamp(0, "UTC")),
     MakeSetup("bearish", 8, 2, 8, 4, Timestamp(0, "UTC"))}

\* the TradeResult of a setup stopped out or reaching its target
ResultOf(setup, outcome, bars_held) ==
    LET entry_price == (setup.entry_zone_high + setup.entry_zone_low) \div 2
        exit_price == IF outcome = "loss" THEN setup.stop ELSE setup.target
        sign == IF setup.direction = "bullish" THEN 1 ELSE -1
    IN TradeResult(setup, outcome, exit_price, bars_held, sign * (exit_price - entry_price))

SummaryResults ==
    {ResultOf(setup, outcome, bars_held) :
        setup \in SummarySetups, outcome \in {"win", "loss"}, bars_held \in 0..MaxBarsHeld}

\* the results collected so far
Results == IF call = NoCall THEN <<>> ELSE call.results

AppendTradeResult ==
    /\ ret = <<>>
    /\ Len(Results) < MaxTrades
    /\ \E tr \in SummaryResults :
          call' = [op |-> "summary", results |-> Append(Results, tr)]
    /\ UNCHANGED <<df, ret>>

Summarise ==
    /\ ret = <<>>
    /\ call' = [op |-> "summary", results |-> Results]
    /\ ret' = <<Summary(Results)>>
    /\ UNCHANGED df

NextSummary == AppendTradeResult \/ Summarise

SpecSummary == InitBacktest /\ [][NextSummary]_vars

\* cumulative P&L after the first k results
Cum(results, k) == SumSeq([j \in 1..k |-> results[j].pnl_points])

\* the highest cumulative P&L reached up to the k-th result, the start (no
\* trade yet, 0) included
PeakSoFar(results, k) == SetMax({Cum(results, j) : j \in 0..k})

(* C19: backtest summary.  For any sequence of TradeResults, total_trades =   *)
(* wins + losses, total P&L is the sum of the signed per-trade P&L, and max   *)
(* drawdown is the maximum, over the trades in result order, of (highest      *)
(* cumulative P&L reached so far - current cumulative P&L), never negative;   *)
(* with zero trades win rate and average bars held are 0.                     *)
C19_Summary ==
    (call.op = "summary" /\ ret # <<>>) =>
        LET results == call.results
            summary == ret[1]
            drawdowns == {PeakSoFar(results, k) - Cum(results, k) : k \in DOMAIN results}
        IN /\ summary.total_trades = Len(results)
           /\ summary.total_trades = summary.wins + summary.losses
           /\ summary.wins = Cardinality({k \in DOMAIN results : results[k].outcome = "win"})
           /\ summary.total_pnl_points = Cum(results, Len(results))
           /\ summary.max_drawdown_points = (IF drawdowns = {} THEN 0 ELSE SetMax(drawdowns))
           /\ summary.max_drawdown_points >= 0
           /\ results = <<>> => summary.win_rate_pct.n = 0 /\ summary.avg_bars_held.n = 0
           /\ summary.win_rate_pct.d > 0 /\ summary.avg_bars_held.d > 0
           /\ results # <<>> =>
                 /\ summary.win_rate_pct.n * Len(results) = 100 * summary.wins * summary.win_rate_pct.d
                 /\ summary.avg_bars_held.n * Len(results)
                       = summary.avg_bars_held.d * SumSeq([k \in DOMAIN results |-> results[k].bars_held])

\* a run that opens with a loss and later recovers above the start: the
\* drawdown is measured from the start, then from the new peak
C19_Witness ==
    /\ call.op = "summary"
    /\ ret # <<>>
    /\ Len(call.results) >= 3
    /\ call.results[1].outcome = "loss"
    /\ PeakSoFar(call.results, Len(call.results)) > 0
    /\ ret[1].max_drawdown_points > 0 - call.results[1].pnl_points
    /\ ret[1].total_pnl_points < 0

\* the summary of no trades
C19_WitnessEmpty ==
    /\ call.op = "summary"
    /\ ret # <<>>
    /\ call.results = <<>>
    /\ ret[1].total_trades = 0

\* only losses: the cumulative P&L never reaches the start again
C19_WitnessOnlyLosses ==
    /\ call.op = "summary"
    /\ ret # <<>>
    /\ Len(call.results) = 2
    /\ ret[1].wins = 0
    /\ ret[1].max_drawdown_points = 0 - ret[1].total_pnl_points

----------------------------------------------------------------------------
(* data/realtime.py *)

\* f"{symbol}|{timeframe}|{timestamp.isoformat()}|{direction}|{entry_zone_low:.4f}":
\* the five fields it is made of; prices are multiples of 1 / Scale, which four
\* decimals tell apart
setup_fingerprint(s) == <<s.symbol, s.timeframe, s.timestamp, s.direction, s.entry_zone_low>>

\* the comparison made on the clock readings, the setup's in UTC and the
\* session's in New York time
IsHistoricalMutWallClock(setup_ts, session_start) == setup_ts.utc < session_start.utc - 5 * 60

\* setup_ts < session_start, both timezone-aware: a comparison of instants
IsHistorical(setup_ts, session_start) == setup_ts.utc < session_start.utc

\* the loop over setups with the test against seen left out
RECURSIVE NewSetupsLoopMutNoSeen(_, _, _, _)
NewSetupsLoopMutNoSeen(setups, k, seen, session_start) ==
    IF k = 0 THEN [new_setups |-> <<>>, seen |-> seen]
    ELSE LET before == NewSetupsLoopMutNoSeen(setups, k - 1, seen, session_start)
             fp == setup_fingerprint(setups[k])
         IN IF IsHistorical(setups[k].timestamp, session_start)
            THEN [new_setups |-> before.new_setups, seen |-> before.seen \cup {fp}]
            ELSE [new_setups |-> Append(before.new_setups, setups[k]), seen |-> before.seen \cup {fp}]

\* the loop over setups: new_setups and seen after the first k setups
RECURSIVE NewSetupsLoop(_, _, _, _)
NewSetupsLoop(setups, k, seen, session_start) ==
    IF k = 0 THEN [new_setups |-> <<>>, seen |-> seen]
    ELSE LET before == NewSetupsLoop(setups, k - 1, seen, session_start)
             fp == setup_fingerprint(setups[k])
         IN IF fp \in before.seen THEN before
            ELSE IF IsHistorical(setups[k].timestamp, session_start)
            THEN [new_setups |-> before.new_setups, seen |-> before.seen \cup {fp}]
            ELSE [new_setups |-> Append(before.new_setups, setups[k]), seen |-> before.seen \cup {fp}]

\* age_sec > stale_threshold_sec, with no bar time counting as fresh
DataFresh(cycle_at, last_primary_bar_time, interval_mins) ==
    IF last_primary_bar_time = <<>> THEN TRUE
    ELSE ~((cycle_at - last_primary_bar_time[1]) * 60 > interval_mins * 60 + 60)

----------------------------------------------------------------------------
(* Specification of run_realtime_loop: the session starts, then polling       *)
(* cycles follow; each cycle's detection returns some of four setups (one     *)
(* formed before the session start, one at it, one after it, and the last one *)
(* again with a higher score), on fresh or delayed data, with or without a    *)
(* notifier; a cycle may also fail before the setups are looked at.           *)

MaxCycles == 3

\* 12:00 UTC = 07:00 New York
SessionStartUtc == 12 * 60

\* the record build_setups lays out, with a score
ScoredSetup(ts, score) == [MakeSetup("bullish", 8, 2, 4, 4, ts) EXCEPT !.score = score]

SetupBefore == ScoredSetup(Timestamp(SessionStartUtc - BarMinutes, "UTC"), 4)

SetupAtStart == ScoredSetup(Timestamp(SessionStartUtc, "UTC"), 4)

SetupAfter == ScoredSetup(Timestamp(SessionStartUtc + BarMinutes, "UTC"), 4)

SetupAfterRescored == ScoredSetup(Timestamp(SessionStartUtc + BarMinutes, "UTC"), 6)

\* what a detection cycle can return: bar order, the last bar under either score
CycleSetups ==
    {a \o b \o c : a \in {<<>>, <<SetupBefore>>}, b \in {<<>>, <<SetupAtStart>>},
                   c \in {<<>>, <<SetupAfter>>, <<SetupAfterRescored>>}}

\* minutes between the last primary bar and the cycle: none known, fresh, delayed
BarAges == {<<>>, <<BarMinutes>>, <<BarMinutes + 2>>}

StartRealtime ==
    /\ call = NoCall
    /\ \E notifier \in BOOLEAN :
          call' = [op |-> "run_realtime_loop", notifier |-> notifier,
                   session_start |-> Timestamp(SessionStartUtc, "UTC"),
                   seen |-> {}, cycle |-> 0, detected |-> <<>>, fresh |-> <<>>]
    /\ ret' = <<>>
    /\ UNCHANGED df

\* one pass of the while loop that reaches its end; ret is what was handed to
\* the notifier; detected and fresh keep, per cycle, the setups returned by
\* the detection and the data_fresh of the cycle
PollCycle ==
    /\ call.op = "run_realtime_loop"
    /\ call.cycle < MaxCycles
    /\ \E setups \in CycleSetups, age \in BarAges :
          LET cycle_at == SessionStartUtc + (call.cycle + 1) * BarMinutes
              last_primary_bar_time == IF age = <<>> THEN <<>> ELSE <<cycle_at - age[1]>>
              data_fresh == DataFresh(cycle_at, last_primary_bar_time, BarMinutes)
              loop == NewSetupsLoop(setups, Len(setups), call.seen, call.session_start)
          IN /\ call' = [call EXCEPT !.seen = loop.seen, !.cycle = call.cycle + 1,
                                     !.detected = Append(call.detected, setups),
                                     !.fresh = Append(call.fresh, data_fresh)]
             /\ ret' = IF loop.new_setups # <<>> /\ call.notifier /\ data_fresh
                       THEN ret \o [k \in DOMAIN loop.new_setups |->
                                       [kind |-> "setup", setup |-> loop.new_setups[k]]]
                       ELSE ret
    /\ UNCHANGED df

\* a pass that raises before the setups are looked at (data_fresh still at
\* its initial True): the error is reported
CycleError ==
    /\ call.op = "run_realtime_loop"
    /\ call.cycle < MaxCycles
    /\ call' = [call EXCEPT !.cycle = call.cycle + 1, !.detected = Append(call.detected, <<>>),
                             !.fresh = Append(call.fresh, TRUE)]
    /\ ret' = IF call.notifier THEN Append(ret, [kind |-> "error"]) ELSE ret
    /\ UNCHANGED df

NextRealtime == StartRealtime \/ PollCycle \/ CycleError

SpecRealtime == InitBacktest /\ [][NextRealtime]_vars

(* C20: realtime alerting ignores history.  Over any sequence of polling      *)
(* cycles of run_realtime_loop, a setup whose timestamp is earlier than the   *)
(* session start time is never sent to Telegram, even if it is detected again *)
(* in every later cycle.                                                      *)
C20_NoHistoricalAlert ==
    call.op = "run_realtime_loop" =>
        \A k \in DOMAIN ret :
            ret[k].kind = "setup" => ret[k].setup.timestamp.utc >= call.session_start.utc

\* the setup formed before the session start was detected in every cycle,
\* on fresh data with a notifier, while later setups were sent
C20_Witness ==
    /\ call.op = "run_realtime_loop"
    /\ call.notifier
    /\ call.cycle = MaxCycles
    /\ \A c \in DOMAIN call.detected : \E k \in DOMAIN call.detected[c] : call.detected[c][k] = SetupBefore
    /\ \E k \in DOMAIN ret : ret[k].kind = "setup" /\ ret[k].setup = SetupAtStart
    /\ \E k \in DOMAIN ret : ret[k].kind = "setup" /\ ret[k].setup.timestamp.utc > call.session_start.utc

\* a setup detected on delayed data: marked as seen, not sent then or later
C20_WitnessDelayed ==
    /\ call.op = "run_realtime_loop"
    /\ call.notifier
    /\ call.cycle = MaxCycles
    /\ \A c \in DOMAIN call.detected : call.detected[c] = <<SetupAfter>>
    /\ ret = <<>>

----------------------------------------------------------------------------
\* the setups of cycle c that the loop told apart as new: not seen in an
\* earlier cycle, not formed before the session start
NewInCycle(c) ==
    {call.detected[c][k] : k \in DOMAIN call.detected[c]}
    \ {s \in {SetupBefore, SetupAtStart, SetupAfter, SetupAfterRescored} :
          \/ IsHistorical(s.timestamp, call.session_start)
          \/ \E b \in 1..(c - 1) : \E k \in DOMAIN call.detected[b] :
                setup_fingerprint(call.detected[b][k]) = setup_fingerprint(s)}

\* the fingerprints handed to the notifier so far
SentFingerprints == {setup_fingerprint(ret[k].setup) : k \in {j \in DOMAIN ret : ret[j].kind = "setup"}}

(* C21: stale-data retry.  If, in one polling cycle, new setups are withheld  *)
(* from Telegram because the latest primary bar is stale, then in a later     *)
(* cycle in which the same setups are detected again and the data is fresh,   *)
(* those setups are sent.                                                     *)
C21_StaleRetry ==
    (call.op = "run_realtime_loop" /\ call.notifier) =>
        \A c1 \in DOMAIN call.detected : \A c2 \in DOMAIN call.detected :
            (c1 < c2 /\ ~call.fresh[c1] /\ call.fresh[c2]) =>
                \A s \in NewInCycle(c1) :
                    (\E k \in DOMAIN call.detected[c2] : call.detected[c2][k] = s)
                        => setup_fingerprint(s) \in SentFingerprints

\* a setup withheld on delayed data, detected again on fresh data, and not sent
C21_WitnessLost ==
    /\ call.op = "run_realtime_loop"
    /\ call.notifier
    /\ call.cycle = 2
    /\ call.detected = <<<<SetupAfter>>, <<SetupAfter>>>>
    /\ call.fresh = <<FALSE, TRUE>>
    /\ ret = <<>>

\* what the code does: a fingerprint is handed to the notifier only in the
\* cycle that first detects it, and only if that cycle's data is fresh
C21_FirstCycleOnly ==
    (call.op = "run_realtime_loop" /\ call.notifier) =>
        \A c \in DOMAIN call.detected : \A s \in NewInCycle(c) :
            setup_fingerprint(s) \in SentFingerprints <=> call.fresh[c]

----------------------------------------------------------------------------
\* the positions of ret that hold a setup handed to the notifier
SetupMessages == {k \in DOMAIN ret : ret[k].kind = "setup"}

\* no fingerprint was handed to the notifier twice, and every one handed is in seen
HandedOnce ==
    call.op = "run_realtime_loop" =>
        /\ \A j \in SetupMessages : \A k \in SetupMessages :
              setup_fingerprint(ret[j].setup) = setup_fingerprint(ret[k].setup) => j = k
        /\ SentFingerprints \subseteq call.seen

\* a cycle never removes a fingerprint from seen, never withdraws what was
\* handed over, and what it hands over was not in seen before it and is after
SeenGrows ==
    (call.op = "run_realtime_loop" /\ call'.op = "run_realtime_loop") =>
        /\ call.seen \subseteq call'.seen
        /\ Len(ret') >= Len(ret) /\ SubSeq(ret', 1, Len(ret)) = ret
        /\ \A k \in (Len(ret) + 1)..Len(ret') :
              ret'[k].kind = "setup" =>
                 /\ setup_fingerprint(ret'[k].setup) \notin call.seen
                 /\ setup_fingerprint(ret'[k].setup) \in call'.seen

(* C29: alert at most once.  Over any sequence of polling cycles of           *)
(* run_realtime_loop, a given setup fingerprint (symbol, timeframe,           *)
(* timestamp, direction, entry_zone_low) is placed in the batch handed to the *)
(* Telegram notifier in at most one cycle; the seen set only grows; and a     *)
(* fingerprint is in seen by the time its setup is handed over.               *)
C29_AtMostOnce == []HandedOnce /\ [][SeenGrows]_vars

\* a setup sent in the first cycle and detected again, rescored, in the two
\* cycles that follow on fresh data: one message
C29_Witness ==
    /\ call.op = "run_realtime_loop"
    /\ call.notifier
    /\ call.cycle = MaxCycles
    /\ call.fresh = <<TRUE, TRUE, TRUE>>
    /\ call.detected[1] = <<SetupAfter>>
    /\ call.detected[2] = <<SetupAfterRescored>>
    /\ call.detected[3] = <<SetupAtStart, SetupAfter>>
    /\ Cardinality(SetupMessages) = 2


----------------------------------------------------------------------------
(* C22: for a series of n bars, every candle at index i with                  *)
(* 0 <= i < n - reversal_confirmation_bars whose longer wick is at least      *)
(* wick_to_body_ratio_min times its body yields a RejectionBlock with         *)
(* bar_index i, every other candle yields none, no candle of the trailing     *)
(* reversal_confirmation_bars bars yields one, and the output is in strictly  *)
(* increasing order of bar index.                                             *)

Qualifies(d, i, ratio) == MeetsThreshold(Max2(WickUpper(d, i), WickLower(d, i)), d, i, ratio)

Reported(i) == \E k \in DOMAIN ret : ret[k].bar_index = i

IncreasingBarIndex == \A a, b \in DOMAIN ret : a < b => ret[a].bar_index < ret[b].bar_index

C22_Coverage ==
    call.op = "find_rejection_blocks" =>
        LET n == Len(df)
            rcb == call.p.reversal_confirmation_bars
            ratio == call.p.wick_to_body_ratio_min
        IN /\ \A i \in 0..(n - 1) :
                Reported(i) <=> (i < n - rcb /\ Qualifies(df, i, ratio))
           /\ IncreasingBarIndex

\* what the loop `for i in range(1, len(df) - reversal_confirmation_bars)`
\* behind the guard `len(df) < 4` gives: the same, from bar 1 on, in a series
\* of four bars or more
C22_CoverageFromOne ==
    call.op = "find_rejection_blocks" =>
        LET n == Len(df)
            rcb == call.p.reversal_confirmation_bars
            ratio == call.p.wick_to_body_ratio_min
        IN /\ \A i \in 0..(n - 1) :
                Reported(i) <=> (n >= 4 /\ 1 <= i /\ i < n - rcb /\ Qualifies(df, i, ratio))
           /\ IncreasingBarIndex

\* four bars, the first one a qualifying candle with a body, a later candle
\* reported and the first one not
C22_WitnessBarZero ==
    /\ call.op = "find_rejection_blocks"
    /\ Len(df) = 4
    /\ Open(df, 0) # Close(df, 0)
    /\ Qualifies(df, 0, call.p.wick_to_body_ratio_min)
    /\ ret # <<>>
    /\ ~Reported(0)

----------------------------------------------------------------------------
(* C23: for a RejectionBlock at bar i, reversal_confirmed is true iff some    *)
(* bar j with i < j <= i + reversal_confirmation_bars closes strictly above   *)
(* the rejection candle's high (bullish) or strictly below its low (bearish); *)
(* all reversal_confirmation_bars later bars exist for every reported block;  *)
(* a qualifying candle that no bar of the window confirms is still reported,  *)
(* with the flag false.                                                       *)

ClosesBeyond(d, i, j, direction) ==
    IF direction = "bullish" THEN Close(d, j) > High(d, i) ELSE Close(d, j) < Low(d, i)

ConfirmedInWindow(d, i, direction, rcb) == \E j \in (i + 1)..(i + rcb) : ClosesBeyond(d, i, j, direction)

C23_ReversalConfirmation ==
    call.op = "find_rejection_blocks" =>
        LET n == Len(df)
            rcb == call.p.reversal_confirmation_bars
            ratio == call.p.wick_to_body_ratio_min
        IN /\ \A k \in DOMAIN ret :
                LET i == ret[k].bar_index
                IN /\ i + rcb <= n - 1
                   /\ ret[k].reversal_confirmed \in BOOLEAN
                   /\ ret[k].reversal_confirmed <=> ConfirmedInWindow(df, i, ret[k].direction, rcb)
           /\ \A i \in 1..(n - rcb - 1) :
                (/\ n >= 4
                 /\ Qualifies(df, i, ratio)
                 /\ ~ConfirmedInWindow(df, i, "bullish", rcb)
                 /\ ~ConfirmedInWindow(df, i, "bearish", rcb))
                    => \E k \in DOMAIN ret :
                          ret[k].bar_index = i /\ ret[k].reversal_confirmed = FALSE

\* a block confirmed by the last bar of a two-bar window only
C23_Witness ==
    /\ call.op = "find_rejection_blocks"
    /\ call.p.reversal_confirmation_bars = 2
    /\ \E k \in DOMAIN ret :
          LET i == ret[k].bar_index
          IN /\ ret[k].reversal_confirmed
             /\ ~ClosesBeyond(df, i, i + 1, ret[k].direction)
             /\ ClosesBeyond(df, i, i + 2, ret[k].direction)
             /\ i + 2 = Len(df) - 1

\* a reported block that no bar of its window confirms, although a close
\* touches the candle's extreme
C23_WitnessUnconfirmed ==
    /\ call.op = "find_rejection_blocks"
    /\ \E k \in DOMAIN ret :
          LET i == ret[k].bar_index
          IN /\ ~ret[k].reversal_confirmed
             /\ ret[k].direction = "bullish"
             /\ Close(df, i + 1) = High(df, i)

----------------------------------------------------------------------------
(* Specification of the ATR and of the two detectors that read it, called     *)
(* directly on the candle series of the rejection-block specification: the    *)
(* ATR periods run from one bar to MaxAtrPeriod bars, so that a series has    *)
(* bars before, at and after the first bar with an ATR value.                 *)

MaxAtrPeriod == 3

MaxRespectBars == 2

\* the keyword arguments of find_wick_events, the defaults but for the windows
WickKwargs(respect_bars_lookback, atr_period) ==
    [wick_to_body_ratio_min |-> Rat(2, 1),
     body_to_range_max |-> Rat(1, 2),
     atr_min_mult |-> Rat(3, 10),
     respect_bars_lookback |-> respect_bars_lookback,
     swing_lookback |-> 1,
     atr_period |-> atr_period]

CallAtrSeries ==
    /\ call = NoCall
    /\ df # <<>>
    /\ \E period \in 1..MaxAtrPeriod :
        /\ call' = [op |-> "atr_series", period |-> period]
        /\ ret' = atr_series(df, period)
    /\ UNCHANGED df

CallFindOrderBlocks ==
    /\ call = NoCall
    /\ \E atr_period \in {1, MaxAtrPeriod} :
        /\ call' = [op |-> "find_order_blocks", displacement_bars |-> 1,
                    body_atr_mult |-> Rat(1, 1), atr_period |-> atr_period]
        /\ ret' = find_order_blocks(df, 1, Rat(1, 1), atr_period)
    /\ UNCHANGED df

CallFindWickEvents ==
    /\ call = NoCall
    /\ \E respect_bars_lookback \in 1..MaxRespectBars, atr_period \in {1, MaxAtrPeriod} :
        /\ call' = [op |-> "find_wick_events", p |-> WickKwargs(respect_bars_lookback, atr_period)]
        /\ ret' = find_wick_events(df, WickKwargs(respect_bars_lookback, atr_period))
    /\ UNCHANGED df

NextDetect == AppendCandle \/ CallAtrSeries \/ CallFindOrderBlocks \/ CallFindWickEvents

SpecDetect == InitRB /\ [][NextDetect]_vars

----------------------------------------------------------------------------
(* C24: atr_series with period p has no value at each of the first p bar      *)
(* indices 0 .. p-1; from index p on it equals the mean of the last p true    *)
(* ranges, the true range being                                               *)
(* max(high - low, |high - prev_close|, |low - prev_close|).                  *)

\* the true range of a bar that has a previous bar
TrueRange3(d, i) ==
    Max2(High(d, i) - Low(d, i),
         Max2(Abs(High(d, i) - Close(d, i - 1)), Abs(Low(d, i) - Close(d, i - 1))))

\* p times the mean of the true ranges of bars i-p+1 .. i, for i >= p
LastTrueRanges(d, i, p) == SumSeq([k \in 1..p |-> TrueRange3(d, i - p + k)])

MeanFromP ==
    \A i \in 0..(Len(df) - 1) :
        i >= call.period =>
            /\ ~ret[i + 1].nan
            /\ ret[i + 1].period = call.period
            /\ ret[i + 1].sum = LastTrueRanges(df, i, call.period)

C24_AtrUndefinedFirstP ==
    call.op = "atr_series" =>
        /\ Len(ret) = Len(df)
        /\ \A i \in 0..(Len(df) - 1) : i <= call.period - 1 => ret[i + 1].nan
        /\ MeanFromP

\* what tr.rolling(period).mean() over a true range that has a value at bar 0
\* gives: no value at the first p-1 bars, and at bar p-1 the mean of p true
\* ranges of which the first is high - low of bar 0
C24_AtrFromPMinusOne ==
    call.op = "atr_series" =>
        /\ Len(ret) = Len(df)
        /\ \A i \in 0..(Len(df) - 1) : ret[i + 1].nan <=> i < call.period - 1
        /\ Len(df) >= call.period =>
              ret[call.period].sum
                 = High(df, 0) - Low(df, 0)
                   + SumSeq([k \in 1..(call.period - 1) |-> TrueRange3(df, k)])
        /\ MeanFromP

\* a period of two bars or more with a value at bar p-1, and a later bar
C24_WitnessValueAtPMinusOne ==
    /\ call.op = "atr_series"
    /\ call.period >= 2
    /\ Len(df) > call.period
    /\ ~ret[call.period].nan
    /\ ret[call.period].sum > 0

----------------------------------------------------------------------------
(* C25: at a bar index where the ATR has no value, every detector that reads  *)
(* the ATR skips the index: find_order_blocks reports no OrderBlock there and *)
(* find_wick_events reports no WickEvent there.                               *)

AtrUndefinedAt(d, i, atr_period) == atr_series(d, atr_period)[i + 1].nan

C25_OrderBlocksSkip ==
    call.op = "find_order_blocks" =>
        \A k \in DOMAIN ret : ~AtrUndefinedAt(df, ret[k].bar_index, call.atr_period)

C25_WickEventsSkip ==
    call.op = "find_wick_events" =>
        \A k \in DOMAIN ret : ~AtrUndefinedAt(df, ret[k].bar_index, call.p.atr_period)

C25_UndefinedAtrSkipped == C25_OrderBlocksSkip /\ C25_WickEventsSkip

\* a wick event reported at a bar without an ATR value, its wick shorter than
\* atr_min_mult times the first ATR value of the series
C25_WitnessWickAtUndefined ==
    /\ call.op = "find_wick_events"
    /\ Len(df) > call.p.atr_period
    /\ \E k \in DOMAIN ret :
          /\ AtrUndefinedAt(df, ret[k].bar_index, call.p.atr_period)
          /\ ret[k].direction = "bullish"
          /\ ~MeetsMinWickSize(df, call.p.atr_period - 1, WickLower(df, ret[k].bar_index),
                               call.p.atr_min_mult, call.p.atr_period)

\* a candle that has the body and the displacement of an order block under a
\* one-bar ATR and is passed over under a period that leaves it without a value
C25_WitnessOrderBlockSkipped ==
    /\ call.op = "find_order_blocks"
    /\ ret = <<>>
    /\ Len(df) >= 2
    /\ AtrUndefinedAt(df, 1, call.atr_period)
    /\ find_order_blocks(df, call.displacement_bars, call.body_atr_mult, 1) # <<>>

----------------------------------------------------------------------------
(* C27: find_order_blocks reports a bullish order block at bar i only if      *)
(* candle i is a down candle and each of the displacement_bars candles that   *)
(* follow is an up candle that is also strong, its body at least              *)
(* body_atr_mult times the ATR of its bar; a bearish order block requires an  *)
(* up candle followed by displacement_bars strong down candles.               *)

\* body >= body_atr_mult * atr at bar j, the test the code applies to the
\* candidate candle
Strong(d, j, body_atr_mult, atr_period) ==
    LET atr == atr_series(d, atr_period)[j + 1]
    IN /\ ~atr.nan
       /\ atr.sum > 0
       /\ Abs(Close(d, j) - Open(d, j)) * body_atr_mult.d * atr.period >= body_atr_mult.n * atr.sum

Followers(i) == (i + 1)..(i + call.displacement_bars)

C27_StrongDisplacement ==
    call.op = "find_order_blocks" =>
        \A k \in DOMAIN ret :
            LET i == ret[k].bar_index
            IN /\ ret[k].direction \in {"bullish", "bearish"}
               /\ i + call.displacement_bars <= Len(df) - 1
               /\ ret[k].direction = "bullish" =>
                     /\ IsDown(df, i)
                     /\ \A j \in Followers(i) :
                           IsUp(df, j) /\ Strong(df, j, call.body_atr_mult, call.atr_period)
               /\ ret[k].direction = "bearish" =>
                     /\ IsUp(df, i)
                     /\ \A j \in Followers(i) :
                           IsDown(df, j) /\ Strong(df, j, call.body_atr_mult, call.atr_period)

\* what the code tests: the body of the candidate candle against the ATR, and
\* of the candles that follow the colour only
C27_ColourOnly ==
    call.op = "find_order_blocks" =>
        /\ \A k \in DOMAIN ret :
            LET i == ret[k].bar_index
            IN /\ i + call.displacement_bars <= Len(df) - 1
               /\ Strong(df, i, call.body_atr_mult, call.atr_period)
               /\ ret[k].direction = "bullish" => IsDown(df, i) /\ \A j \in Followers(i) : IsUp(df, j)
               /\ ret[k].direction = "bearish" => IsUp(df, i) /\ \A j \in Followers(i) : IsDown(df, j)
        /\ \A i \in 1..(Len(df) - call.displacement_bars - 2) :
              (/\ Strong(df, i, call.body_atr_mult, call.atr_period)
               /\ IsDown(df, i)
               /\ \A j \in Followers(i) : IsUp(df, j))
                  => \E k \in DOMAIN ret : ret[k].bar_index = i /\ ret[k].direction = "bullish"

\* a bullish order block whose following up candle has a body under
\* body_atr_mult times the ATR of its bar
C27_WitnessWeakFollower ==
    /\ call.op = "find_order_blocks"
    /\ \E k \in DOMAIN ret :
          /\ ret[k].direction = "bullish"
          /\ \E j \in Followers(ret[k].bar_index) :
                /\ IsUp(df, j)
                /\ ~AtrUndefinedAt(df, j, call.atr_period)
                /\ ~Strong(df, j, call.body_atr_mult, call.atr_period)

----------------------------------------------------------------------------
(* C28: for a bullish WickEvent at bar i, respect is decided by the first bar *)
(* j with i < j <= i + respect_bars_lookback whose close is below the wick    *)
(* midpoint (False) or above the candle's body top (True); for a bearish      *)
(* event the first close above the midpoint gives False and the first close   *)
(* below the body bottom gives True; the two triggers never both hold on one  *)
(* bar; when no bar of the window triggers either, respect stays None and the *)
(* event is still reported.                                                   *)

\* the bars after bar i that the window of the call holds
RespectWindow(i) == {j \in (i + 1)..(i + call.p.respect_bars_lookback) : j <= Len(df) - 1}

\* the close of bar j against the event: disrespect, respect
Disrespects(ev, j) ==
    IF ev.direction = "bullish" THEN Px(Close(df, j)) < ev.midpoint
    ELSE Px(Close(df, j)) > ev.midpoint

Respects(ev, j) ==
    IF ev.direction = "bullish" THEN Close(df, j) > BodyTop(df, ev.bar_index)
    ELSE Close(df, j) < BodyBottom(df, ev.bar_index)

Triggers(ev) == {j \in RespectWindow(ev.bar_index) : Disrespects(ev, j) \/ Respects(ev, j)}

\* half-way between the end of the wick and the body, in the units of Px
IsWickMidpoint(ev) ==
    IF ev.direction = "bullish"
    THEN 2 * ev.midpoint = Px(Low(df, ev.bar_index)) + Px(BodyBottom(df, ev.bar_index))
    ELSE 2 * ev.midpoint = Px(High(df, ev.bar_index)) + Px(BodyTop(df, ev.bar_index))

\* bar index and direction of the events, in order
EventKeys(events) == [k \in DOMAIN events |-> <<events[k].bar_index, events[k].direction>>]

C28_RespectResolution ==
    call.op = "find_wick_events" =>
        /\ \A k \in DOMAIN ret :
              LET ev == ret[k]
              IN /\ ev.direction \in {"bullish", "bearish"}
                 /\ IsWickMidpoint(ev)
                 /\ \A j \in RespectWindow(ev.bar_index) : ~(Disrespects(ev, j) /\ Respects(ev, j))
                 /\ ev.respect \in {"None", "True", "False"}
                 /\ ev.respect = "None" <=> Triggers(ev) = {}
                 /\ ev.respect = "False" <=>
                       Triggers(ev) # {} /\ Disrespects(ev, SetMin(Triggers(ev)))
                 /\ ev.respect = "True" <=>
                       Triggers(ev) # {} /\ Respects(ev, SetMin(Triggers(ev)))
        /\ EventKeys(ret)
              = EventKeys(find_wick_events(df, [call.p EXCEPT !.respect_bars_lookback = 0]))

\* a bullish event that the first bar of its window disrespects and the second
\* bar would respect
C28_Witness ==
    /\ call.op = "find_wick_events"
    /\ \E k \in DOMAIN ret :
          /\ ret[k].direction = "bullish"
          /\ ret[k].respect = "False"
          /\ ret[k].bar_index + 2 \in RespectWindow(ret[k].bar_index)
          /\ Disrespects(ret[k], ret[k].bar_index + 1)
          /\ Respects(ret[k], ret[k].bar_index + 2)

\* an event reported with two bars in its window and neither trigger on them
C28_WitnessUndetermined ==
    /\ call.op = "find_wick_events"
    /\ \E k \in DOMAIN ret :
          /\ ret[k].respect = "None"
          /\ Cardinality(RespectWindow(ret[k].bar_index)) = 2

----------------------------------------------------------------------------
(* Specification of find_liquidity_sweeps.  Two swings of different prices    *)
(* that one later bar sweeps need seven bars and four price levels; the bars  *)
(* are flat at one price, or span all the prices and close at one end.        *)

SweepMaxBars == 7

SweepMaxPrice == 4

SweepBars ==
    {b \in WellFormedCandles(SweepMaxPrice, {1}) :
        /\ b.open = b.close
        /\ \/ b.high = b.low
           \/ b.low = 1 /\ b.high = SweepMaxPrice /\ b.close \in {1, SweepMaxPrice}}

AppendSweepBar ==
    /\ Len(df) < SweepMaxBars
    /\ \E b \in SweepBars : df' = Append(df, Row(b, NextTs(df, 0, "UTC")))
    /\ call' = NoCall
    /\ ret' = <<>>

CallFindLiquiditySweeps ==
    /\ call = NoCall
    /\ \E swing_lookback \in 1..MaxLookback :
        /\ call' = [op |-> "find_liquidity_sweeps", swing_lookback |-> swing_lookback,
                    threshold_pct |-> Rat(2, 100)]
        /\ ret' = find_liquidity_sweeps(df, swing_lookback, Rat(2, 100))
    /\ UNCHANGED df

NextSweep == AppendSweepBar \/ CallFindLiquiditySweeps

SpecSweep == InitStruct /\ [][NextSweep]_vars

\* the swings of the series of the call
CallSwingHighs == find_swing_highs(df, call.swing_lookback)

CallSwingLows == find_swing_lows(df, call.swing_lookback)

\* bar b breaks above the level by the threshold and closes back below it
BreachesHigh(b, level) ==
    /\ High(df, b) * call.threshold_pct.d >= level * (call.threshold_pct.d + call.threshold_pct.n)
    /\ Close(df, b) < level

BreachesLow(b, level) ==
    /\ Low(df, b) * call.threshold_pct.d <= level * (call.threshold_pct.d - call.threshold_pct.n)
    /\ Close(df, b) > level

\* the swings formed strictly before bar b that bar b sweeps, by bar index
SweptBy(direction, b) ==
    IF direction = "sweep_highs"
    THEN {CallSwingHighs[k].bar_index : k \in {j \in DOMAIN CallSwingHighs :
            CallSwingHighs[j].bar_index < b /\ BreachesHigh(b, CallSwingHighs[j].price)}}
    ELSE {CallSwingLows[k].bar_index : k \in {j \in DOMAIN CallSwingLows :
            CallSwingLows[j].bar_index < b /\ BreachesLow(b, CallSwingLows[j].price)}}

\* the price of the swing at bar s
SwingPrice(direction, s) == IF direction = "sweep_highs" THEN High(df, s) ELSE Low(df, s)

OnePerBarAndSide ==
    \A a, b \in DOMAIN ret :
        (a # b /\ ret[a].bar_index = ret[b].bar_index) => ret[a].direction # ret[b].direction

----------------------------------------------------------------------------
(* C26: find_liquidity_sweeps reports at most one sweep_highs and at most one *)
(* sweep_lows per bar; the reported level belongs to a swing whose bar index  *)
(* is strictly before the breach bar; and when several such swings satisfy    *)
(* the breach-and-close-back condition at the same bar, the level reported is *)
(* that of the most recent swing, whatever its price.                         *)

C26_NearestSwing ==
    call.op = "find_liquidity_sweeps" =>
        /\ OnePerBarAndSide
        /\ \A k \in DOMAIN ret :
              LET swept == SweptBy(ret[k].direction, ret[k].bar_index)
              IN /\ ret[k].direction \in {"sweep_highs", "sweep_lows"}
                 /\ swept # {}
                 /\ ret[k].level = SwingPrice(ret[k].direction, SetMax(swept))

\* what the scan `for sh in swing_highs: ... break` over a list in increasing
\* bar order gives: the level of the earliest swing that the bar sweeps
C26_EarliestSwing ==
    call.op = "find_liquidity_sweeps" =>
        /\ OnePerBarAndSide
        /\ \A k \in DOMAIN ret :
              LET swept == SweptBy(ret[k].direction, ret[k].bar_index)
              IN /\ swept # {}
                 /\ ret[k].level = SwingPrice(ret[k].direction, SetMin(swept))

\* a bar that sweeps two swing highs of different prices, reported with the
\* level of the earlier one
C26_WitnessEarlierLevel ==
    /\ call.op = "find_liquidity_sweeps"
    /\ \E k \in DOMAIN ret :
          LET swept == SweptBy("sweep_highs", ret[k].bar_index)
          IN /\ ret[k].direction = "sweep_highs"
             /\ Cardinality(swept) >= 2
             /\ ret[k].level = SwingPrice("sweep_highs", SetMin(swept))
             /\ ret[k].level # SwingPrice("sweep_highs", SetMax(swept))

----------------------------------------------------------------------------
(* C30: with threshold_pct > 0 and positive prices, every LiquiditySweep      *)
(* reported at bar b against a swing formed at bar s has b > s +              *)
(* swing_lookback: the sweep bar lies outside the window                      *)
(* [s - swing_lookback, s + swing_lookback] that defined the swing.           *)

\* the swing the scan stopped at: the first one in list order that matches
SweptSwing(k) ==
    LET i == ret[k].bar_index - 1
        swings == IF ret[k].direction = "sweep_highs" THEN CallSwingHighs ELSE CallSwingLows
        hits == {j \in DOMAIN swings :
                    /\ swings[j].bar_index < i
                    /\ swings[j].price = ret[k].level}
    IN swings[SetMin(hits)].bar_index

C30_NoLookAhead ==
    call.op = "find_liquidity_sweeps" =>
        /\ call.threshold_pct.n > 0
        /\ \A k \in DOMAIN ret :
              /\ ret[k].bar_index > SweptSwing(k) + call.swing_lookback
              /\ \A s \in SweptBy(ret[k].direction, ret[k].bar_index) :
                    /\ ret[k].bar_index > s + call.swing_lookback
                    /\ s < ret[k].bar_index - 1

\* a sweep under a two-bar lookback at the first bar after the window of the
\* swing it sweeps
C30_Witness ==
    /\ call.op = "find_liquidity_sweeps"
    /\ call.swing_lookback = 2
    /\ \E k \in DOMAIN ret :
          /\ ret[k].bar_index = SweptSwing(k) + call.swing_lookback + 1
          /\ SweptBy(ret[k].direction, ret[k].bar_index) = {SweptSwing(k)}

\* a sweep of a swing low under a one-bar lookback
C30_WitnessLow ==
    /\ call.op = "find_liquidity_sweeps"
    /\ call.swing_lookback = 1
    /\ \E k \in DOMAIN ret :
          /\ ret[k].direction = "sweep_lows"
          /\ ret[k].bar_index = SweptSwing(k) + call.swing_lookback + 1

====
